---- MODULE Spec2Model ----
(***************************************************************************)
(* Isolate hot reload of the Dart VM: IsolateReloadContext                 *)
(* (runtime/vm/isolate_reload.cc), the per-class reconciler                *)
(* (runtime/vm/object_reload.cc) and Become (runtime/vm/become.cc).        *)
(*                                                                         *)
(* The heap is a sequence of objects; a pointer is the position of its     *)
(* target, 0 is null and a negative number is an immediate (a Smi).        *)
(* Class ids and library indices are zero-based as in the VM: the class    *)
(* with cid c is class_table[c + 1].                                       *)
(***************************************************************************)
EXTENDS Integers, Sequences, FiniteSets, TLC

VARIABLES
  heap,                      \* the isolate's heap: Seq of objects
  class_table,               \* ClassTable::table_, entry c+1 is cid c
  libraries,                 \* ObjectStore::libraries()
  root_library,              \* ObjectStore::root_library()
  compile_time_constants,    \* ObjectStore::compile_time_constants()
  canonical_type_arguments,  \* ObjectStore::canonical_type_arguments()
  megamorphic_cache_table,   \* ObjectStore::megamorphic_cache_table()
  defer_finalization_count,  \* Isolate: class finalization is blocked if > 0
  start_reload,              \* the activation of StartReload: its locals
                             \* root_lib_url and result (the error message,
                             \* "" if none), and the URL it handed to the
                             \* library tag handler
  ctx,                       \* the IsolateReloadContext
  events,                    \* service events handed to Service::HandleEvent
  background_compiler,       \* TRUE while BackgroundCompiler is enabled
  pc,                        \* position of the reload controller
  phases,                    \* steps FinishReload has executed so far
  pre,                       \* the isolate as it was just before StartReload
  reloads,                   \* number of reloads started
  before,                    \* arrays handed to Become::ElementsForwardIdentity
  after,
  fatal,                     \* message of a FATAL abort, "" if none
  stack,                     \* the Dart frames of the mutator thread
  returns                    \* the activations that have returned, in order

vars == <<heap, class_table, libraries, root_library, compile_time_constants,
          canonical_type_arguments, megamorphic_cache_table,
          defer_finalization_count, start_reload, ctx, events,
          background_compiler, pc, phases, pre, reloads, before, after, fatal,
          stack, returns>>

Null == 0

\* No activation of StartReload so far.
NoActivation == [root_lib_url |-> "", url |-> "", result |-> ""]

\* Bounds of the model.
MaxReloads == 2
MaxInstances == 1
MaxBecomeLength == 2
MaxInvocations == 1
MaxLoadedClasses == 4

---------------------------------------------------------------------------
(* Raw objects *)

IsHeapObject(p) == p > 0

\* dictionary holds the classes declared in the library.
NewLibrary(url, dart, index) ==
  [kind |-> "Library", vm |-> FALSE, old |-> TRUE, url |-> url,
   is_dart_scheme |-> dart, debuggable |-> TRUE, index |-> index,
   dictionary |-> <<>>]

NewField(name, static, owner, value) ==
  [kind |-> "Field", vm |-> FALSE, old |-> TRUE, name |-> name,
   is_static |-> static, owner |-> owner, value |-> value]

\* field is the static field the function's code refers to, null if none.
\* A new function has the lazy-compilation stub as its code (code is null)
\* and no ICData array; code compiled from the function's source is named
\* by the script the source belongs to.  The edge counters are slot 0 of
\* the ICData array: edge_counters is 0 while there is no array.
NewFunction(name, static, owner, body, field) ==
  [kind |-> "Function", vm |-> FALSE, old |-> TRUE, name |-> name,
   is_static |-> static, owner |-> owner, body |-> body, field |-> field,
   code |-> Null, ic_data_array |-> FALSE, has_optimized_code |-> FALSE,
   usage_counter |-> 0, deoptimization_counter |-> 0, edge_counters |-> 0]

NewPatchClass(cls, script) ==
  [kind |-> "PatchClass", vm |-> FALSE, old |-> TRUE,
   patched_class |-> cls, script |-> script]

NewInstance(cid, fields) ==
  [kind |-> "Instance", vm |-> FALSE, old |-> TRUE, cid |-> cid,
   fields |-> fields]

NewTypeArguments(types) ==
  [kind |-> "TypeArguments", vm |-> FALSE, old |-> TRUE, types |-> types]

IsFreeListElement(h, p) == h[p].kind = "FreeListElement"

\* Fields of an object that hold one pointer, and fields that hold an array
\* of pointers.
PointerFields == {"library", "owner", "value", "patched_class", "field"}
PointerArrayFields == {"fields", "functions", "types", "dictionary"}

RECURSIVE SelectIdx(_, _, _)
\* The positions i >= from of s whose element is in keep, in order.
SelectIdx(s, keep, from) ==
  IF from > Len(s) THEN <<>>
  ELSE (IF s[from] \in keep THEN <<from>> ELSE <<>>)
       \o SelectIdx(s, keep, from + 1)

---------------------------------------------------------------------------
(* Source texts handed to the loader *)

FieldDecl(n, s, v) == [name |-> n, is_static |-> s, init |-> v]

FuncDecl(n, s) == [name |-> n, is_static |-> s]

\* Every class declares a static method m.  A class has no type parameter
\* and is no enum unless said otherwise; instance_size is the size a
\* prefinalized class is given.
ClassDecl(n, st, fs, nat) ==
  [name |-> n, state |-> st, fields |-> fs, num_native_fields |-> nat,
   functions |-> <<FuncDecl("m", TRUE)>>, num_type_parameters |-> 0,
   instance_size |-> 0, is_enum |-> FALSE]

LibDecl(u, cs) == [url |-> u, classes |-> cs]

\* Class A also declares an instance method i.
ClsA(sinit, ifields) ==
  [ClassDecl("A", "finalized",
             <<FieldDecl("s", TRUE, sinit)>> \o
               [i \in DOMAIN ifields |-> FieldDecl(ifields[i], FALSE, Null)],
             0)
     EXCEPT !.functions = <<FuncDecl("m", TRUE), FuncDecl("i", FALSE)>>]
ClsB == ClassDecl("B", "finalized", <<>>, 0)
ClsC == ClassDecl("C", "finalized", <<FieldDecl("t", TRUE, -3)>>, 0)
ClsD == ClassDecl("D", "unfinalized", <<>>, 0)
ClsE == ClassDecl("E", "finalized", <<>>, 0)

\* A script is the text the loader is handed: tag identifies the text
\* (function bodies and class scripts carry it).  The loader gets through
\* the first nlibs libraries of it, the last of them up to its first ncls
\* classes, and stops there with error unless error is "".
Good(tag, libs) ==
  [tag |-> tag, libs |-> libs, nlibs |-> Len(libs),
   ncls |-> Len(libs[Len(libs)].classes), error |-> ""]

Broken(tag, libs, nlibs, ncls) ==
  [tag |-> tag, libs |-> libs, nlibs |-> nlibs, ncls |-> ncls,
   error |-> "unexpected token"]

\* The tag of the source of dart:core.
CoreScript == 9

\* The script the isolate starts with, and the scripts a reload may load.
InitialScript == Good(1, <<LibDecl("app", <<ClsA(-1, <<"f">>), ClsB>>)>>)

\* Class B dropped, class C added first, library lib2 added.
Restructured ==
  <<LibDecl("app", <<ClsC, ClsA(-2, <<"f">>)>>), LibDecl("lib2", <<ClsD>>)>>

ReloadScripts ==
  { \* bodies and the static initializer changed, same shape
    Good(2, <<LibDecl("app", <<ClsA(-2, <<"f">>), ClsB>>)>>),
    \* instance field renamed
    Good(3, <<LibDecl("app", <<ClsA(-2, <<"g">>), ClsB>>)>>),
    \* instance field added
    Good(4, <<LibDecl("app", <<ClsB, ClsA(-2, <<"f", "g">>)>>)>>),
    Good(5, Restructured),
    \* syntax error inside the second library
    Broken(8, Restructured, 2, 0) }

---------------------------------------------------------------------------
(* The isolate as one record, so that the steps compose *)

World ==
  [heap |-> heap, class_table |-> class_table, libraries |-> libraries,
   root_library |-> root_library,
   compile_time_constants |-> compile_time_constants,
   canonical_type_arguments |-> canonical_type_arguments,
   megamorphic_cache_table |-> megamorphic_cache_table,
   defer_finalization_count |-> defer_finalization_count,
   start_reload |-> start_reload,
   ctx |-> ctx, events |-> events, fatal |-> fatal, stack |-> stack,
   returns |-> returns]

Install(w) ==
  /\ heap' = w.heap
  /\ class_table' = w.class_table
  /\ libraries' = w.libraries
  /\ root_library' = w.root_library
  /\ compile_time_constants' = w.compile_time_constants
  /\ canonical_type_arguments' = w.canonical_type_arguments
  /\ megamorphic_cache_table' = w.megamorphic_cache_table
  /\ defer_finalization_count' = w.defer_finalization_count
  /\ start_reload' = w.start_reload
  /\ ctx' = w.ctx
  /\ events' = w.events
  /\ fatal' = w.fatal
  /\ stack' = w.stack
  /\ returns' = w.returns

NumCids(w) == Len(w.class_table)
ClassAt(w, cid) == w.class_table[cid + 1]
HasValidClassAt(w, cid) ==
  cid >= 0 /\ cid < NumCids(w) /\ ClassAt(w, cid) # Null
LibraryAt(libs, i) == libs[i + 1]

\* The instance fields of a class, in the order of their declaration.
InstanceFieldsOf(h, cls) ==
  LET fs == h[cls].fields
      kept == SelectIdx(fs,
                        {f \in DOMAIN h :
                           h[f].kind = "Field" /\ ~h[f].is_static}, 1)
  IN [k \in 1..Len(kept) |-> fs[kept[k]]]

---------------------------------------------------------------------------
(* The loader: the library tag handler invoked by StartReload *)

\* Class::New and ClassTable::Register for one class declaration, with its
\* Field and Function objects; the class gets the next free cid and is
\* entered in the dictionary of its library.  An instance has its header
\* word, then the word of its type-arguments vector if its class is generic,
\* then one word per instance field.
TypeArgumentsWords(num_type_parameters) ==
  IF num_type_parameters > 0 THEN 1 ELSE 0

LoadClass(w, d, lib, tag) ==
  LET c == Len(w.heap) + 1
      nf == Len(d.fields)
      ng == Len(d.functions)
      nif == Cardinality({i \in 1..nf : ~d.fields[i].is_static})
      statics == {i \in 1..nf : d.fields[i].is_static}
      used == IF statics = {} THEN Null
              ELSE c + (CHOOSE i \in statics : \A j \in statics : i <= j)
      cls == [kind |-> "Class", vm |-> FALSE, old |-> TRUE, name |-> d.name,
              library |-> lib, id |-> NumCids(w), state |-> d.state,
              num_type_parameters |-> d.num_type_parameters,
              instance_size |->
                 IF d.state = "finalized"
                   THEN 1 + TypeArgumentsWords(d.num_type_parameters) + nif
                 ELSE IF d.state = "prefinalized" THEN d.instance_size
                 ELSE 0,
              num_native_fields |-> d.num_native_fields,
              fields |-> [i \in 1..nf |-> c + i],
              functions |-> [i \in 1..ng |-> c + nf + i],
              script |-> tag, constants |-> <<>>, is_patch |-> FALSE,
              is_enum_class |-> d.is_enum]
  IN [w EXCEPT
        !.heap = [w.heap EXCEPT ![lib].dictionary = Append(@, c)]
                 \o <<cls>>
                 \o [i \in 1..nf |-> NewField(d.fields[i].name,
                                              d.fields[i].is_static, c,
                                              d.fields[i].init)]
                 \o [i \in 1..ng |-> NewFunction(d.functions[i].name,
                                                 d.functions[i].is_static,
                                                 c, tag, used)],
        !.class_table = Append(w.class_table, c)]

RECURSIVE LoadClasses(_, _, _, _, _)
LoadClasses(w, ds, n, lib, tag) ==
  IF n = 0 THEN w
  ELSE LoadClass(LoadClasses(w, ds, n - 1, lib, tag), ds[n], lib, tag)

\* Library::New and Library::Register, then the first ncls classes of the
\* library.
LoadLibrary(w, ld, ncls, tag) ==
  LET l == Len(w.heap) + 1
      w1 == [w EXCEPT
               !.heap = Append(w.heap,
                               NewLibrary(ld.url, FALSE, Len(w.libraries))),
               !.libraries = Append(w.libraries, l),
               !.root_library =
                  IF w.root_library = Null THEN l ELSE w.root_library]
  IN LoadClasses(w1, ld.classes, ncls, l, tag)

RECURSIVE LoadLibraries(_, _, _, _)
LoadLibraries(w, script, nlibs, ncls_last) ==
  IF nlibs = 0 THEN w
  ELSE LoadLibrary(LoadLibraries(w, script, nlibs - 1,
                                 IF nlibs > 1
                                   THEN Len(script.libs[nlibs - 1].classes)
                                   ELSE 0),
                   script.libs[nlibs],
                   ncls_last, script.tag)

\* The load of a script, as far as the loader gets.
LoadScript(w, script) ==
  LoadLibraries(w, script, script.nlibs, script.ncls)

---------------------------------------------------------------------------
(* Construction *)

\* Class ids below this one belong to the VM isolate; LinearFindOldClass
\* starts its search here.
VmIsolateNumCids == 1

\* IsolateReloadContext::IsolateReloadContext.
NewContext ==
  [has_error |-> FALSE, error |-> "", saved_num_cids |-> -1,
   dead_classes |-> <<>>, saved_num_libs |-> -1, num_saved_libs |-> -1,
   class_map |-> <<>>, library_map |-> <<>>, become_map |-> <<>>,
   saved_root_library |-> Null, saved_libraries |-> <<>>,
   library_infos |-> <<>>]

---------------------------------------------------------------------------
(* Identity predicates *)

UrlOf(h, lib) == IF lib = Null THEN "" ELSE h[lib].url

\* Identity of classes by name and library object.
IsSameClass_SameLibraryObject(h, a, b) ==
  /\ h[a].name = h[b].name
  /\ h[a].library = h[b].library

IsSameClass(h, a, b) ==
  /\ h[a].name = h[b].name
  /\ UrlOf(h, h[a].library) = UrlOf(h, h[b].library)

IsSameLibrary(h, a_lib, b_lib) == UrlOf(h, a_lib) = UrlOf(h, b_lib)

---------------------------------------------------------------------------
(* Error channel and service events *)

\* ReportError that records the error and sends no event.
ReportError_NoEvent(w, error) ==
  [w EXCEPT !.ctx.has_error = TRUE, !.ctx.error = error]

ReportError(w, error) ==
  [w EXCEPT !.ctx.has_error = TRUE,
            !.ctx.error = error,
            !.events = Append(w.events, [kind |-> "error", error |-> error])]

ReportSuccess(w) ==
  [w EXCEPT !.events = Append(w.events, [kind |-> "success", error |-> ""])]

---------------------------------------------------------------------------
(* Checkpoint and Rollback *)

CheckpointClasses(w) == [w EXCEPT !.ctx.saved_num_cids = NumCids(w)]

\* CheckpointLibraries that keeps every library in the list.
CheckpointLibraries_AllKept(w) ==
  [w EXCEPT !.ctx.saved_num_libs = Len(w.libraries),
            !.ctx.saved_libraries = w.libraries,
            !.ctx.num_saved_libs = Len(w.libraries),
            !.ctx.saved_root_library = w.root_library,
            !.root_library = Null]

\* CheckpointLibraries that leaves the index of the libraries it keeps.
CheckpointLibraries_IndexKept(w) ==
  LET libs == w.libraries
      kept == SelectIdx(libs,
                        {l \in DOMAIN w.heap :
                           w.heap[l].kind = "Library"
                           /\ w.heap[l].is_dart_scheme}, 1)
      new_libs == [k \in 1..Len(kept) |-> libs[kept[k]]]
  IN [w EXCEPT
        !.heap = [o \in DOMAIN w.heap |->
                    IF \E p \in 1..Len(libs) :
                         libs[p] = o /\ ~w.heap[o].is_dart_scheme
                      THEN [w.heap[o] EXCEPT !.index = -1]
                      ELSE w.heap[o]],
        !.ctx.saved_num_libs = Len(libs),
        !.ctx.saved_libraries = libs,
        !.libraries = new_libs,
        !.ctx.num_saved_libs = Len(new_libs),
        !.ctx.saved_root_library = w.root_library,
        !.root_library = Null]

CheckpointLibraries(w) ==
  LET libs == w.libraries
      kept == SelectIdx(libs,
                        {l \in DOMAIN w.heap :
                           w.heap[l].kind = "Library"
                           /\ w.heap[l].is_dart_scheme}, 1)
      new_libs == [k \in 1..Len(kept) |-> libs[kept[k]]]
      \* the length of new_libs when the library at position p is visited
      NewIndex(p) == Cardinality({q \in 1..(p - 1) :
                                    w.heap[libs[q]].is_dart_scheme})
      Visited(o) == {p \in 1..Len(libs) : libs[p] = o}
      Last(o) == CHOOSE p \in Visited(o) : \A q \in Visited(o) : q <= p
  IN [w EXCEPT
        !.heap = [o \in DOMAIN w.heap |->
                    IF Visited(o) = {} THEN w.heap[o]
                    ELSE IF w.heap[o].is_dart_scheme
                      THEN [w.heap[o] EXCEPT !.index = NewIndex(Last(o))]
                      ELSE [w.heap[o] EXCEPT !.index = -1]],
        !.ctx.saved_num_libs = Len(libs),
        !.ctx.saved_libraries = libs,
        !.libraries = new_libs,
        !.ctx.num_saved_libs = Len(new_libs),
        !.ctx.saved_root_library = w.root_library,
        !.root_library = Null]

\* Checkpoint that leaves the compile-time-constants cache alone.
Checkpoint_CacheKept(w) == CheckpointLibraries(CheckpointClasses(w))

Checkpoint(w) ==
  [CheckpointLibraries(CheckpointClasses(w))
     EXCEPT !.compile_time_constants = <<>>]

\* DropNewClasses that keeps the whole table.
DropNewClasses_NothingDropped(w, new_top) == w

\* ClassTable::DropNewClasses: the table keeps the cids below new_top.
DropNewClasses(w, new_top) ==
  [w EXCEPT !.class_table =
     SubSeq(w.class_table, 1,
            IF new_top < Len(w.class_table) THEN new_top
            ELSE Len(w.class_table))]

RollbackClasses(w) == DropNewClasses(w, w.ctx.saved_num_cids)

\* RollbackLibraries that restores the list and not the indexes.
RollbackLibraries_ListOnly(w) ==
  LET saved_libs == w.ctx.saved_libraries
      w1 == IF saved_libs # <<>>
              THEN [w EXCEPT !.libraries = saved_libs] ELSE w
      w2 == IF w.ctx.saved_root_library # Null
              THEN [w1 EXCEPT !.root_library = w.ctx.saved_root_library]
              ELSE w1
  IN [w2 EXCEPT !.ctx.saved_root_library = Null,
                !.ctx.saved_libraries = <<>>]

\* RollbackLibraries without the restore of the root library.
RollbackLibraries_RootForgotten(w) ==
  LET saved_libs == w.ctx.saved_libraries
      Listed(o) == {i \in 1..Len(saved_libs) : saved_libs[i] = o}
      Last(o) == CHOOSE i \in Listed(o) : \A j \in Listed(o) : j <= i
      w1 == IF saved_libs # <<>>
              THEN [w EXCEPT
                      !.libraries = saved_libs,
                      !.heap = [o \in DOMAIN w.heap |->
                                  IF Listed(o) = {} THEN w.heap[o]
                                  ELSE [w.heap[o] EXCEPT
                                          !.index = Last(o) - 1]]]
              ELSE w
  IN [w1 EXCEPT !.ctx.saved_root_library = Null,
                !.ctx.saved_libraries = <<>>]

RollbackLibraries(w) ==
  LET saved_libs == w.ctx.saved_libraries
      Listed(o) == {i \in 1..Len(saved_libs) : saved_libs[i] = o}
      Last(o) == CHOOSE i \in Listed(o) : \A j \in Listed(o) : j <= i
      w1 == IF saved_libs # <<>>
              THEN [w EXCEPT
                      !.libraries = saved_libs,
                      !.heap = [o \in DOMAIN w.heap |->
                                  IF Listed(o) = {} THEN w.heap[o]
                                  ELSE [w.heap[o] EXCEPT
                                          !.index = Last(o) - 1]]]
              ELSE w
      w2 == IF w.ctx.saved_root_library # Null
              THEN [w1 EXCEPT !.root_library = w.ctx.saved_root_library]
              ELSE w1
  IN [w2 EXCEPT !.ctx.saved_root_library = Null,
                !.ctx.saved_libraries = <<>>]

Rollback(w) == RollbackLibraries(RollbackClasses(w))

---------------------------------------------------------------------------
(* Mapping tables.  A map is the sequence of its entries in insertion      *)
(* order; a null saved_libraries list is the empty sequence.               *)

\* IsMatch that looks at the kind of the two objects only.
IsMatch_KindOnly(h, traits, a, b) ==
  CASE traits = "ClassMapTraits" ->
         h[a].kind = "Class" /\ h[b].kind = "Class"
    [] traits = "LibraryMapTraits" ->
         h[a].kind = "Library" /\ h[b].kind = "Library"
    [] traits = "BecomeMapTraits" -> a = b

\* IsMatch of ClassMapTraits, LibraryMapTraits and BecomeMapTraits.
IsMatch(h, traits, a, b) ==
  CASE traits = "ClassMapTraits" ->
         h[a].kind = "Class" /\ h[b].kind = "Class" /\ IsSameClass(h, a, b)
    [] traits = "LibraryMapTraits" ->
         h[a].kind = "Library" /\ h[b].kind = "Library"
         /\ IsSameLibrary(h, a, b)
    [] traits = "BecomeMapTraits" -> a = b

\* UnorderedHashMap::UpdateOrInsert under the traits' IsMatch.
UpdateOrInsert(h, traits, map, key, value) ==
  LET hit == {i \in 1..Len(map) : IsMatch(h, traits, map[i].key, key)}
  IN IF hit = {} THEN Append(map, [key |-> key, value |-> value])
     ELSE LET i == CHOOSE i \in hit : \A j \in hit : i <= j
          IN [map EXCEPT ![i].value = value]

AddClassMapping(w, replacement_or_new, original) ==
  [w EXCEPT !.ctx.class_map =
     UpdateOrInsert(w.heap, "ClassMapTraits", w.ctx.class_map,
                    replacement_or_new, original)]

AddLibraryMapping(w, replacement_or_new, original) ==
  [w EXCEPT !.ctx.library_map =
     UpdateOrInsert(w.heap, "LibraryMapTraits", w.ctx.library_map,
                    replacement_or_new, original)]

AddBecomeMapping(w, old, neu) ==
  [w EXCEPT !.ctx.become_map =
     UpdateOrInsert(w.heap, "BecomeMapTraits", w.ctx.become_map, old, neu)]

AddStaticFieldMapping(w, old_field, new_field) ==
  AddBecomeMapping(w, old_field, new_field)

\* LinearFindOldClass that finds no class.
LinearFindOldClass_NoneFound(w, replacement_or_new) == Null

LinearFindOldClass(w, replacement_or_new) ==
  LET found == {i \in VmIsolateNumCids..(w.ctx.saved_num_cids - 1) :
                  /\ HasValidClassAt(w, i)
                  /\ IsSameClass(w.heap, replacement_or_new, ClassAt(w, i))}
  IN IF found = {} THEN Null
     ELSE ClassAt(w, CHOOSE i \in found : \A j \in found : i <= j)

RECURSIVE BuildClassMappingFrom(_, _)
BuildClassMappingFrom(w, i) ==
  IF i >= NumCids(w) THEN w
  ELSE IF ~HasValidClassAt(w, i) THEN BuildClassMappingFrom(w, i + 1)
  ELSE LET replacement_or_new == ClassAt(w, i)
           old == LinearFindOldClass(w, replacement_or_new)
       IN BuildClassMappingFrom(
            AddClassMapping(w, replacement_or_new,
                            IF old = Null THEN replacement_or_new ELSE old),
            i + 1)

BuildClassMapping(w) == BuildClassMappingFrom(w, w.ctx.saved_num_cids)

\* LinearFindOldLibrary that finds no library.
LinearFindOldLibrary_NoneFound(w, replacement_or_new) == Null

LinearFindOldLibrary(w, replacement_or_new) ==
  LET saved_libs == w.ctx.saved_libraries
      found == {i \in 1..Len(saved_libs) :
                  IsSameLibrary(w.heap, replacement_or_new, saved_libs[i])}
  IN IF found = {} THEN Null
     ELSE saved_libs[CHOOSE i \in found : \A j \in found : i <= j]

RECURSIVE BuildLibraryMappingFrom(_, _)
BuildLibraryMappingFrom(w, i) ==
  IF i >= Len(w.libraries) THEN w
  ELSE LET replacement_or_new == LibraryAt(w.libraries, i)
           old == LinearFindOldLibrary(w, replacement_or_new)
       IN IF w.heap[replacement_or_new].is_dart_scheme
            THEN BuildLibraryMappingFrom(w, i + 1)
          ELSE IF old = Null
            THEN BuildLibraryMappingFrom(
                   AddLibraryMapping(w, replacement_or_new,
                                     replacement_or_new), i + 1)
          ELSE BuildLibraryMappingFrom(
                 AddBecomeMapping(
                   AddLibraryMapping(w, replacement_or_new, old),
                   old, replacement_or_new), i + 1)

BuildLibraryMapping(w) == BuildLibraryMappingFrom(w, 0)

---------------------------------------------------------------------------
(* Shape validation *)

\* Class::EnsureIsFinalized: an unfinalized class is laid out and becomes
\* finalized; a malformed one stays as it is and an error is returned.
FinalizationError(h, cls) ==
  IF h[cls].state = "malformed" THEN "cannot finalize" ELSE ""

EnsureIsFinalized(w, cls) ==
  IF w.heap[cls].state \in {"finalized", "malformed"} THEN w
  ELSE [w EXCEPT !.heap[cls].state = "finalized",
                 !.heap[cls].instance_size =
                    1 + TypeArgumentsWords(w.heap[cls].num_type_parameters)
                      + Len(InstanceFieldsOf(w.heap, cls))]

\* Class::OffsetToFieldMap: the field at each word of an instance, null at
\* the header word and at the word of the type-arguments vector.
OffsetToFieldMap(h, cls) ==
  <<Null>>
  \o [i \in 1..TypeArgumentsWords(h[cls].num_type_parameters) |-> Null]
  \o InstanceFieldsOf(h, cls)

\* What a build of the VM makes of the two places where CanReload relies on
\* the maps having their null entries at the same offsets: a debug build
\* checks ASSERT(replacement_fields.At(i) == Field::null()) and a release
\* build does not; the name read through a null replacement field is
\* whatever the memory holds, equal to the old field's name or not, unless
\* the read stops the process.
Builds ==
  [debug : BOOLEAN, null_field_name : {"equal", "unequal", "crash"}]

RECURSIVE VerifyFieldNames(_, _, _, _, _)
\* The for loop of CanReload over the offsets from i on: "" when it runs to
\* its end, "changed" when it reports a changed name, the failure that
\* stops the process otherwise.
VerifyFieldNames(h, fields, replacement_fields, i, build) ==
  LET Continue ==
        VerifyFieldNames(h, fields, replacement_fields, i + 1, build)
  IN IF i > Len(fields) THEN ""
     ELSE IF fields[i] = Null
       THEN IF build.debug /\ replacement_fields[i] # Null
              THEN "ASSERT: replacement_fields.At(i) == Field::null()"
              ELSE Continue
     ELSE IF replacement_fields[i] = Null
       THEN CASE build.null_field_name = "equal" -> Continue
              [] build.null_field_name = "unequal" -> "changed"
              [] OTHER -> "name() of a null field"
     ELSE IF h[fields[i]].name # h[replacement_fields[i]].name
       THEN "changed"
     ELSE Continue

\* Class::CanReload: [ok, w], w carrying the finalization of the
\* replacement and the error reported, or the failure that stopped the
\* process.
CanReload(w, cls, replacement, build) ==
  LET finalized == w.heap[cls].state = "finalized"
      w1 == IF finalized THEN EnsureIsFinalized(w, replacement) ELSE w
      h == w1.heap
      fields == OffsetToFieldMap(h, cls)
      replacement_fields == OffsetToFieldMap(h, replacement)
      names == VerifyFieldNames(h, fields, replacement_fields, 1, build)
      Fail(msg) == [ok |-> FALSE, w |-> ReportError(w1, msg)]
      NativeFieldCheck ==
        IF h[cls].num_native_fields # h[replacement].num_native_fields
          THEN Fail("Number of native fields changed")
          ELSE [ok |-> TRUE, w |-> w1]
  IN IF finalized /\ FinalizationError(w.heap, replacement) # ""
       THEN Fail(FinalizationError(w.heap, replacement))
     ELSE IF finalized
       THEN IF Len(fields) # Len(replacement_fields)
              THEN Fail("Number of instance fields changed")
            ELSE IF names = "changed"
              THEN Fail("Name of instance field changed")
            ELSE IF names # ""
              THEN [ok |-> FALSE, w |-> [w1 EXCEPT !.fatal = names]]
            ELSE NativeFieldCheck
     ELSE IF h[cls].state = "prefinalized"
       THEN IF h[replacement].state # "prefinalized"
              THEN Fail("Original class is prefinalized and replacement is not")
            ELSE IF h[cls].instance_size # h[replacement].instance_size
              THEN Fail("Instance size mismatch")
            ELSE NativeFieldCheck
     ELSE NativeFieldCheck

RECURSIVE ValidateFrom(_, _, _)
ValidateFrom(w, entry, build) ==
  IF entry > Len(w.ctx.class_map) THEN [ok |-> TRUE, w |-> w]
  ELSE LET new_cls == w.ctx.class_map[entry].key
           cls == w.ctx.class_map[entry].value
       IN IF new_cls # cls
            THEN LET r == CanReload(w, cls, new_cls, build)
                 IN IF ~r.ok THEN r ELSE ValidateFrom(r.w, entry + 1, build)
            ELSE ValidateFrom(w, entry + 1, build)

\* ValidateReload without the test of has_error_.
ValidateReload_ErrorIgnored(w, build) == ValidateFrom(w, 1, build)

ValidateReload(w, build) ==
  IF w.ctx.has_error THEN [ok |-> FALSE, w |-> w]
  ELSE ValidateFrom(w, 1, build)

---------------------------------------------------------------------------
(* Per-class reconciler *)

RECURSIVE CopyStaticFieldValuesFrom(_, _, _, _, _)
\* The double loop of Class::CopyStaticFieldValues: i over the fields of
\* the new class, j over the fields of the old class.
CopyStaticFieldValuesFrom(w, new_cls, old_cls, i, j) ==
  LET field_list == w.heap[new_cls].fields
      old_field_list == w.heap[old_cls].fields
  IN IF i > Len(field_list) THEN w
     ELSE IF ~w.heap[field_list[i]].is_static \/ j > Len(old_field_list)
       THEN CopyStaticFieldValuesFrom(w, new_cls, old_cls, i + 1, 1)
     ELSE LET field == field_list[i]
              old_field == old_field_list[j]
          IN IF w.heap[field].name = w.heap[old_field].name
               THEN CopyStaticFieldValuesFrom(
                      AddStaticFieldMapping(
                        [w EXCEPT !.heap[field].value =
                                     w.heap[old_field].value],
                        old_field, field),
                      new_cls, old_cls, i, j + 1)
               ELSE CopyStaticFieldValuesFrom(w, new_cls, old_cls, i, j + 1)

\* CopyStaticFieldValues with an inner loop that misses the first old field.
CopyStaticFieldValues_FirstSkipped(w, new_cls, old_cls) ==
  CopyStaticFieldValuesFrom(w, new_cls, old_cls, 1, 2)

CopyStaticFieldValues(w, new_cls, old_cls) ==
  CopyStaticFieldValuesFrom(w, new_cls, old_cls, 1, 1)

\* Class::CopyCanonicalConstants.
CopyCanonicalConstants(w, new_cls, old_cls) ==
  [w EXCEPT !.heap[new_cls].constants = w.heap[old_cls].constants]

\* PatchFieldsAndFunctions without its second loop: the fields keep their
\* owner.
PatchFieldsAndFunctions_FunctionsOnly(w, cls) ==
  LET patch == Len(w.heap) + 1
      owned == {w.heap[cls].functions[i] : i \in DOMAIN w.heap[cls].functions}
      h1 == Append(w.heap, NewPatchClass(cls, w.heap[cls].script))
  IN [w EXCEPT !.heap = [o \in DOMAIN h1 |->
                           IF o \in owned THEN [h1[o] EXCEPT !.owner = patch]
                           ELSE h1[o]]]

PatchFieldsAndFunctions(w, cls) ==
  LET patch == Len(w.heap) + 1
      owned == {w.heap[cls].functions[i] : i \in DOMAIN w.heap[cls].functions}
               \cup {w.heap[cls].fields[i] : i \in DOMAIN w.heap[cls].fields}
      h1 == Append(w.heap, NewPatchClass(cls, w.heap[cls].script))
  IN [w EXCEPT !.heap = [o \in DOMAIN h1 |->
                           IF o \in owned THEN [h1[o] EXCEPT !.owner = patch]
                           ELSE h1[o]]]

RECURSIVE ReconcileFrom(_, _)
ReconcileFrom(w, entry) ==
  IF entry > Len(w.ctx.class_map) THEN w
  ELSE LET new_cls == w.ctx.class_map[entry].key
           cls == w.ctx.class_map[entry].value
       IN IF new_cls # cls
            THEN ReconcileFrom(
                   PatchFieldsAndFunctions(
                     CopyCanonicalConstants(
                       CopyStaticFieldValues(w, new_cls, cls), new_cls, cls),
                     cls),
                   entry + 1)
            ELSE ReconcileFrom(w, entry + 1)

\* Commit, first block: the dead-classes array, then static fields,
\* canonical constants and patching for every replaced class.
CopyStaticFieldsAndPatchFieldsAndFunctions(w) ==
  ReconcileFrom([w EXCEPT !.ctx.dead_classes =
                            [i \in 1..NumCids(w) |-> FALSE]], 1)

---------------------------------------------------------------------------
(* Class table swap and compaction *)

IsDeadClassAt(w, index) == w.ctx.dead_classes[index + 1]
MarkClassDeadAt(w, index) == [w EXCEPT !.ctx.dead_classes[index + 1] = TRUE]

\* ClassTable::ReplaceClass: new_cls takes the slot and the cid of old_cls.
ReplaceClass(w, old_cls, new_cls) ==
  [w EXCEPT !.class_table[w.heap[old_cls].id + 1] = new_cls,
            !.heap[new_cls].id = w.heap[old_cls].id]

\* MoveClass that leaves the class the id it had.
MoveClass_IdKept(w, dst, src) ==
  [w EXCEPT !.class_table[dst + 1] = ClassAt(w, src)]

\* ClassTable::MoveClass: the class at cid src moves to cid dst.
MoveClass(w, dst, src) ==
  [w EXCEPT !.class_table[dst + 1] = ClassAt(w, src),
            !.heap[ClassAt(w, src)].id = dst]

RECURSIVE ReplaceClassesFrom(_, _)
ReplaceClassesFrom(w, entry) ==
  IF entry > Len(w.ctx.class_map) THEN w
  ELSE LET new_cls == w.ctx.class_map[entry].key
           cls == w.ctx.class_map[entry].value
       IN IF new_cls # cls
            THEN ReplaceClassesFrom(
                   AddBecomeMapping(
                     ReplaceClass(MarkClassDeadAt(w, w.heap[new_cls].id),
                                  cls, new_cls),
                     cls, new_cls),
                   entry + 1)
            ELSE ReplaceClassesFrom(w, entry + 1)

\* ReplaceClasses with an iteration that misses the first entry of the map.
ReplaceClasses_FirstSkipped(w) == ReplaceClassesFrom(w, 2)

ReplaceClasses(w) == ReplaceClassesFrom(w, 1)

RECURSIVE CompactFrom(_, _, _, _)
\* The loops of CompactClassTable: free_index scans the new cids; cls_index,
\* when positive, scans for the live class to move into free_index.
CompactFrom(w, top, new_top, free_index) ==
  IF free_index >= top THEN DropNewClasses(w, new_top)
  ELSE IF ~IsDeadClassAt(w, free_index)
    THEN CompactFrom(w, top, new_top + 1, free_index + 1)
  ELSE LET live == {c \in (free_index + 1)..(top - 1) : ~IsDeadClassAt(w, c)}
       IN IF live = {} THEN CompactFrom(w, top, new_top, free_index + 1)
          ELSE LET cls_index == CHOOSE c \in live : \A d \in live : c <= d
               IN CompactFrom(
                    MarkClassDeadAt(MoveClass(w, free_index, cls_index),
                                    cls_index),
                    top, new_top + 1, free_index + 1)

\* CompactClassTable with new_top counted from zero.
CompactClassTable_TopFromZero(w) ==
  CompactFrom(w, NumCids(w), 0, w.ctx.saved_num_cids)

CompactClassTable(w) ==
  CompactFrom(w, NumCids(w), w.ctx.saved_num_cids, w.ctx.saved_num_cids)

---------------------------------------------------------------------------
(* Libraries at commit *)

RECURSIVE CopyLibraryBitsFrom(_, _)
CopyLibraryBitsFrom(w, entry) ==
  IF entry > Len(w.ctx.library_map) THEN w
  ELSE LET new_lib == w.ctx.library_map[entry].key
           lib == w.ctx.library_map[entry].value
       IN CopyLibraryBitsFrom(
            [w EXCEPT !.heap[new_lib].debuggable = w.heap[lib].debuggable],
            entry + 1)

CopyLibraryBits_NothingCopied(w) == w

CopyLibraryBits(w) == CopyLibraryBitsFrom(w, 1)

\* UpdateLibrariesArray that marks dirty the libraries after the first one
\* that follows the saved ones.
UpdateLibrariesArray_FirstLoadedClean(w) ==
  LET libs == w.libraries
      Listed(o) == {i \in 1..Len(libs) : libs[i] = o}
      Last(o) == CHOOSE i \in Listed(o) : \A j \in Listed(o) : j <= i
  IN [w EXCEPT
        !.heap = [o \in DOMAIN w.heap |->
                    IF Listed(o) = {} THEN w.heap[o]
                    ELSE [w.heap[o] EXCEPT !.index = Last(o) - 1]],
        !.ctx.library_infos =
           [i \in 1..Len(libs) |->
              [dirty |-> (i - 1) > w.ctx.num_saved_libs]]]

UpdateLibrariesArray(w) ==
  LET libs == w.libraries
      Listed(o) == {i \in 1..Len(libs) : libs[i] = o}
      Last(o) == CHOOSE i \in Listed(o) : \A j \in Listed(o) : j <= i
  IN [w EXCEPT
        !.heap = [o \in DOMAIN w.heap |->
                    IF Listed(o) = {} THEN w.heap[o]
                    ELSE [w.heap[o] EXCEPT !.index = Last(o) - 1]],
        !.ctx.library_infos =
           [i \in 1..Len(libs) |->
              [dirty |-> (i - 1) >= w.ctx.num_saved_libs]]]

---------------------------------------------------------------------------
(* Become *)

\* RawObject::Size in words: the header and the pointer slots.
SizeOf(obj) ==
  1 + Cardinality(DOMAIN obj \cap PointerFields)
    + Cardinality(DOMAIN obj \cap PointerArrayFields)

\* FreeListElement::AsElement and set_next: the object becomes a forwarding
\* corpse of the same size.
AsForwarder(obj, target) ==
  [kind |-> "FreeListElement", vm |-> obj.vm, old |-> obj.old,
   size |-> SizeOf(obj), next |-> target]

RECURSIVE SetupForwarding(_, _, _, _)
\* The first loop of ElementsForwardIdentity: [heap, fatal].  after_arr
\* holds heap objects.
SetupForwarding(h, before_arr, after_arr, i) ==
  IF i > Len(before_arr) THEN [heap |-> h, fatal |-> ""]
  ELSE LET before_obj == before_arr[i]
           after_obj == after_arr[i]
           Stop(msg) == [heap |-> h, fatal |-> msg]
       IN IF before_obj = after_obj
            THEN Stop("become: Cannot self-forward")
          ELSE IF ~IsHeapObject(before_obj)
            THEN Stop("become: Cannot forward immediates")
          ELSE IF h[before_obj].vm
            THEN Stop("become: Cannot forward VM heap objects")
          ELSE IF IsFreeListElement(h, before_obj)
            THEN Stop("become: Cannot forward to multiple objects")
          ELSE IF IsFreeListElement(h, after_obj)
            THEN Stop("become: No indirect chains of forwarding")
          ELSE IF h[before_obj].old /\ ~h[after_obj].old
            THEN Stop("unimplemented")
          ELSE SetupForwarding(
                 [h EXCEPT ![before_obj] = AsForwarder(h[before_obj],
                                                       after_obj)],
                 before_arr, after_arr, i + 1)

RECURSIVE ForwardPointer_Chased(_, _)
\* A visitor that follows a forwarding pointer to the end of its chain.
ForwardPointer_Chased(h, p) ==
  IF IsHeapObject(p) /\ IsFreeListElement(h, p)
    THEN ForwardPointer_Chased(h, h[p].next)
    ELSE p

\* ForwardPointersVisitor::VisitPointers on one slot.
ForwardPointer(h, p) ==
  IF IsHeapObject(p) /\ IsFreeListElement(h, p) THEN h[p].next ELSE p

ForwardPointers(h, s) == [i \in DOMAIN s |-> ForwardPointer(h, s[i])]

ForwardMap(h, map) ==
  [i \in DOMAIN map |-> [key |-> ForwardPointer(h, map[i].key),
                         value |-> ForwardPointer(h, map[i].value)]]

\* Heap::VisitObjectPointers: every pointer slot of every object that is
\* not a free-list element.
ForwardObject(h, obj) ==
  IF obj.kind = "FreeListElement" THEN obj
  ELSE [f \in DOMAIN obj |->
          IF f \in PointerFields THEN ForwardPointer(h, obj[f])
          ELSE IF f \in PointerArrayFields THEN ForwardPointers(h, obj[f])
          ELSE obj[f]]

\* The forwarding sweep over the heap only, the isolate's roots unvisited.
FollowForwardingPointers_HeapOnly(w) ==
  [w EXCEPT !.heap = [o \in DOMAIN w.heap |-> ForwardObject(w.heap, w.heap[o])]]

\* Isolate::VisitObjectPointers and Heap::VisitObjectPointers with the
\* forwarding visitor.
FollowForwardingPointers(w) ==
  LET h == w.heap
      n == Len(w.canonical_type_arguments)
  IN [w EXCEPT
        !.heap = [o \in DOMAIN h |-> ForwardObject(h, h[o])],
        !.class_table = ForwardPointers(h, w.class_table),
        !.libraries = ForwardPointers(h, w.libraries),
        !.root_library = ForwardPointer(h, w.root_library),
        !.canonical_type_arguments =
           [i \in 1..n |-> IF i < n
                             THEN ForwardPointer(h, w.canonical_type_arguments[i])
                             ELSE w.canonical_type_arguments[i]],
        !.ctx.class_map = ForwardMap(h, w.ctx.class_map),
        !.ctx.library_map = ForwardMap(h, w.ctx.library_map),
        !.ctx.become_map = ForwardMap(h, w.ctx.become_map),
        !.ctx.saved_root_library = ForwardPointer(h, w.ctx.saved_root_library),
        !.ctx.saved_libraries = ForwardPointers(h, w.ctx.saved_libraries),
        !.stack = [i \in DOMAIN w.stack |->
                     [w.stack[i] EXCEPT
                        !.function = ForwardPointer(h, @),
                        !.ic.target = ForwardPointer(h, @)]]]

ElementsForwardIdentity(w, before_arr, after_arr) ==
  LET r == SetupForwarding(w.heap, before_arr, after_arr, 1)
  IN IF r.fatal # "" THEN [w EXCEPT !.fatal = r.fatal]
     ELSE FollowForwardingPointers([w EXCEPT !.heap = r.heap])

---------------------------------------------------------------------------
(* Canonical type arguments *)

\* TypeArguments::Hash mixes the ids of the classes of its types.
RECURSIVE SumIds(_, _, _)
SumIds(h, types, i) ==
  IF i > Len(types) THEN 0 ELSE h[types[i]].id + SumIds(h, types, i + 1)

Hash(h, element) == SumIds(h, h[element].types, 1)

Equals(h, a, b) == h[a].types = h[b].types

RECURSIVE Probe_NoEquals(_, _, _, _)
\* The while loop without its test for an equal element.
Probe_NoEquals(h, new_table, element, index) ==
  LET table_size == Len(new_table) - 1
  IN IF new_table[index + 1] = Null THEN index
     ELSE Probe_NoEquals(h, new_table, element, (index + 1) % table_size)

RECURSIVE Probe(_, _, _, _)
\* The while loop of the re-insertion: the slot where element goes.
Probe(h, new_table, element, index) ==
  LET table_size == Len(new_table) - 1
  IN IF new_table[index + 1] = Null THEN index
     ELSE IF Equals(h, new_table[index + 1], element) THEN index
     ELSE Probe(h, new_table, element, (index + 1) % table_size)

RECURSIVE RehashFrom(_, _, _, _)
RehashFrom(h, table, new_table, i) ==
  LET table_size == Len(table) - 1
  IN IF i >= table_size THEN new_table
     ELSE IF table[i + 1] = Null THEN RehashFrom(h, table, new_table, i + 1)
     ELSE LET element == table[i + 1]
              index == Probe(h, new_table, element,
                             Hash(h, element) % table_size)
          IN RehashFrom(h, table,
                        [new_table EXCEPT ![index + 1] = element], i + 1)

RehashCanonicalTypeArguments(w) ==
  LET table == w.canonical_type_arguments
      table_size == Len(table) - 1
      empty == [i \in 1..(table_size + 1) |-> Null]
      new_table == RehashFrom(w.heap, table, empty, 0)
  IN [w EXCEPT !.canonical_type_arguments =
                  [new_table EXCEPT ![table_size + 1] = table[table_size + 1]]]

\* Canonicalization of a new type-arguments vector by the running program:
\* it is allocated and inserted at the first free slot from its hash.
Canonicalize(w, types) ==
  LET ta == Len(w.heap) + 1
      h == Append(w.heap, NewTypeArguments(types))
      table == w.canonical_type_arguments
      table_size == Len(table) - 1
      index == Probe(h, table, ta, Hash(h, ta) % table_size)
  IN [w EXCEPT !.heap = h,
               !.canonical_type_arguments =
                  [table EXCEPT ![index + 1] = ta,
                                ![table_size + 1] = table[table_size + 1] + 1]]

---------------------------------------------------------------------------
(* Frames, inline caches and code invalidation *)

\* The ICData of a call site: an unoptimized static call (a call of a
\* static function, or a super call, whose target is an instance method) or
\* an instance call of method name on a receiver with class id
\* receiver_cid; target is the function the cache dispatches to, null when
\* the cache holds no check.
NewICData(is_static_call, target, name, receiver_cid) ==
  [is_static_call |-> is_static_call, target |-> target, name |-> name,
   receiver_cid |-> receiver_cid]

\* An activation suspended before the call at its call site: code names
\* the source its code was compiled from, optimized tells whether that code
\* is optimized code, deopt whether the frame is marked for deoptimization.
NewFrame(function, code, optimized, ic) ==
  [function |-> function, code |-> code, optimized |-> optimized,
   deopt |-> FALSE, ic |-> ic]

\* Function::Owner: the owning class, through the patch class if the owner
\* is one.
Owner(h, func) ==
  IF h[h[func].owner].kind = "PatchClass"
    THEN h[h[func].owner].patched_class
    ELSE h[func].owner

\* The function of cls with this name and this static-ness, null if none.
LookupFunction(h, cls, name, static) ==
  LET funcs == h[cls].functions
      found == {i \in DOMAIN funcs :
                  h[funcs[i]].name = name /\ h[funcs[i]].is_static = static}
  IN IF found = {} THEN Null
     ELSE funcs[CHOOSE i \in found : \A j \in found : i <= j]

\* Class::LookupStaticFunction.
LookupStaticFunction(h, cls, name) == LookupFunction(h, cls, name, TRUE)

\* ICData::Reset.
Reset(h, ic) ==
  IF ic.is_static_call
    THEN LET old_target == ic.target
         IN IF ~h[old_target].is_static
              THEN ic   \* "Cannot rebind super-call"
            ELSE LET new_target ==
                       LookupStaticFunction(h, Owner(h, old_target),
                                            h[old_target].name)
                 IN IF new_target = Null
                      THEN ic   \* "Cannot rebind static call"
                      ELSE [ic EXCEPT !.target = new_target]
    ELSE [ic EXCEPT !.target = Null]

\* ResetICs, and ClearICs of FillICDataWithSentinels: nothing is reset when
\* the function has no ICData array.
ResetICs(h, function, ic) ==
  IF ~h[function].ic_data_array THEN ic ELSE Reset(h, ic)

\* Function::EnsureHasCompiledUnoptimizedCode for every Dart frame.
SwitchStackToUnoptimizedCode(w) ==
  LET on_stack == {w.stack[i].function : i \in DOMAIN w.stack}
  IN [w EXCEPT !.heap =
        [o \in DOMAIN w.heap |->
           IF o \in on_stack /\ w.heap[o].code = Null
             THEN [w.heap[o] EXCEPT !.code = w.heap[o].body,
                                    !.ic_data_array = TRUE]
             ELSE w.heap[o]]]

\* DeoptimizeFunctionsOnStack: every optimized frame is marked, and resumes
\* in the unoptimized code of its function.
DeoptimizeFunctionsOnStack(w) ==
  [w EXCEPT !.stack = [i \in DOMAIN w.stack |->
                         [w.stack[i] EXCEPT !.deopt = w.stack[i].optimized]]]

\* For an optimized frame the ICs reset are those of the unoptimized code
\* its object pool refers to, the code that finishes the activation.
ResetUnoptimizedICsOnStack(w) ==
  [w EXCEPT !.stack =
     [i \in DOMAIN w.stack |->
        [w.stack[i] EXCEPT !.ic = ResetICs(w.heap, w.stack[i].function,
                                           w.stack[i].ic)]]]

\* IsolateReloadContext::IsDirty: a library without an index has been
\* deleted and counts as dirty.
IsDirty(w, lib) ==
  IF w.heap[lib].index = -1 THEN TRUE
  ELSE w.ctx.library_infos[w.heap[lib].index + 1].dirty

\* MarkFunctionsForRecompilation::IsFromDirtyLibrary.
IsFromDirtyLibrary(w, func) ==
  IsDirty(w, w.heap[Owner(w.heap, func)].library)

\* MarkFunctionsForRecompilation::VisitObject on every object of the heap:
\* a function gives up its optimized code
\* (SwitchToLazyCompiledUnoptimizedCode) and has its edge counters zeroed
\* if it has an ICData array (ZeroEdgeCounters); one whose current code is
\* then not the stub loses code and ICData array when its library is dirty
\* (ClearAllCode) and has its ICs reset otherwise
\* (PreserveUnoptimizedCode); the counters are cleared.
MarkAllFunctionsForRecompilation(w) ==
  LET h == w.heap
      Compiled(o) == h[o].kind = "Function" /\ h[o].code # Null
      Switched(o) == [h[o] EXCEPT !.has_optimized_code = FALSE,
                                  !.edge_counters =
                                     IF h[o].ic_data_array THEN 0 ELSE @,
                                  !.usage_counter = 0,
                                  !.deoptimization_counter = 0]
  IN [w EXCEPT
        !.heap = [o \in DOMAIN h |->
                    IF h[o].kind # "Function" THEN h[o]
                    ELSE IF Compiled(o) /\ IsFromDirtyLibrary(w, o)
                      THEN [Switched(o) EXCEPT !.code = Null,
                                               !.ic_data_array = FALSE]
                      ELSE Switched(o)],
        !.stack = [i \in DOMAIN w.stack |->
                     LET func == w.stack[i].function
                     IN IF Compiled(func) /\ ~IsFromDirtyLibrary(w, func)
                             /\ w.stack[i].code = h[func].code
                          THEN [w.stack[i] EXCEPT
                                  !.ic = ResetICs(h, func, w.stack[i].ic)]
                          ELSE w.stack[i]]]

\* The table is dropped as a whole; null is the empty sequence.
ResetMegamorphicCaches(w) == [w EXCEPT !.megamorphic_cache_table = <<>>]

InvalidateWorld(w) ==
  MarkAllFunctionsForRecompilation(
    ResetUnoptimizedICsOnStack(
      DeoptimizeFunctionsOnStack(ResetMegamorphicCaches(w))))

---------------------------------------------------------------------------
(* The initial state *)

\* An isolate that has loaded dart:core and InitialScript and has run main
\* once: one entry in the compile-time-constants cache, the type arguments
\* <A> and <A, B> canonicalized, a megamorphic cache for the selector i.
InitialWorld ==
  LET core == [heap |-> <<NewLibrary("dart:core", TRUE, 0)>>,
               class_table |-> <<Null>>,
               libraries |-> <<1>>,
               root_library |-> Null,
               compile_time_constants |-> <<-7>>,
               canonical_type_arguments |-> <<Null, Null, Null, Null, 0>>,
               megamorphic_cache_table |-> <<"i">>,
               defer_finalization_count |-> 0,
               start_reload |-> NoActivation,
               ctx |-> NewContext, events |-> <<>>, fatal |-> "",
               stack |-> <<>>, returns |-> <<>>]
      w == LoadScript(LoadClass(core,
                                ClassDecl("Object", "finalized", <<>>, 0),
                                1, CoreScript),
                      InitialScript)
  IN Canonicalize(Canonicalize(w, <<ClassAt(w, 2)>>),
                  <<ClassAt(w, 2), ClassAt(w, 3)>>)

\* What is remembered of the isolate for comparison: its state when
\* StartReload is entered, the number of events emitted when FinishReload
\* is entered (-1 before that), the script the program was running when
\* StartReload was entered and the script that reload loads.
Snapshot(w) ==
  [heap |-> w.heap, class_table |-> w.class_table,
   libraries |-> w.libraries, root_library |-> w.root_library,
   compile_time_constants |-> w.compile_time_constants,
   canonical_type_arguments |-> w.canonical_type_arguments,
   megamorphic_cache_table |-> w.megamorphic_cache_table,
   events |-> w.events, finish_events |-> -1,
   running |-> InitialScript.tag, loading |-> InitialScript.tag]

Init ==
  /\ heap = InitialWorld.heap
  /\ class_table = InitialWorld.class_table
  /\ libraries = InitialWorld.libraries
  /\ root_library = InitialWorld.root_library
  /\ compile_time_constants = InitialWorld.compile_time_constants
  /\ canonical_type_arguments = InitialWorld.canonical_type_arguments
  /\ megamorphic_cache_table = InitialWorld.megamorphic_cache_table
  /\ defer_finalization_count = 0
  /\ start_reload = NoActivation
  /\ ctx = NewContext
  /\ events = <<>>
  /\ fatal = ""
  /\ stack = <<>>
  /\ returns = <<>>
  /\ background_compiler = TRUE
  /\ pc = "Idle"
  /\ phases = <<>>
  /\ pre = Snapshot(InitialWorld)
  /\ reloads = 0
  /\ before = <<>>
  /\ after = <<>>

---------------------------------------------------------------------------
(* The running program between reloads *)

Instances == {o \in DOMAIN heap : heap[o].kind = "Instance"}

LiveClasses ==
  {class_table[i] : i \in {j \in DOMAIN class_table : class_table[j] # Null}}

\* Allocation of an instance of a finalized class: the header gets the
\* class's cid, each field the value its initializer in the current script
\* produces.
AllocateInstance ==
  /\ pc = "Idle"
  /\ Cardinality(Instances) < MaxInstances
  /\ \E cls \in LiveClasses :
       /\ heap[cls].state = "finalized"
       /\ heap[cls].library # 1
       /\ heap' = Append(heap,
                         NewInstance(heap[cls].id,
                                     [i \in 1..(heap[cls].instance_size - 1)
                                        |-> -(10 + heap[cls].script)]))
  /\ UNCHANGED <<class_table, libraries, root_library, compile_time_constants,
                 canonical_type_arguments,
                 megamorphic_cache_table, defer_finalization_count,
                 start_reload, ctx, events, background_compiler,
                 pc, phases, pre, reloads, before, after, fatal, stack,
                 returns>>

\* A store to a static field of a class of the running program.
StoreStaticField ==
  /\ pc = "Idle"
  /\ \E cls \in LiveClasses : \E i \in DOMAIN heap[cls].fields :
       LET field == heap[cls].fields[i]
       IN /\ heap[field].is_static
          /\ heap[field].value # -9
          /\ heap' = [heap EXCEPT ![field].value = -9]
  /\ UNCHANGED <<class_table, libraries, root_library, compile_time_constants,
                 canonical_type_arguments,
                 megamorphic_cache_table, defer_finalization_count,
                 start_reload, ctx, events, background_compiler,
                 pc, phases, pre, reloads, before, after, fatal, stack,
                 returns>>

---------------------------------------------------------------------------
(* The reload controller *)

\* The script of the running program: the one the last reload loaded if it
\* was committed, the one that ran before it otherwise.
Running ==
  IF \E i \in DOMAIN phases : phases[i] = "PostCommit"
    THEN pre.loading ELSE pre.running

\* The first statements of StartReload, on a new context: the URL of the
\* root library is read.
GrabRootLibrary(w) ==
  [w EXCEPT !.ctx = NewContext,
            !.start_reload = [NoActivation EXCEPT !.root_lib_url =
                                UrlOf(w.heap, w.root_library)]]

\* UnblockClassFinalization that leaves the count as it is.
UnblockClassFinalization_StillBlocked(w) == w

\* Isolate::BlockClassFinalization and Isolate::UnblockClassFinalization.
BlockClassFinalization(w) ==
  [w EXCEPT !.defer_finalization_count = @ + 1]

UnblockClassFinalization(w) ==
  [w EXCEPT !.defer_finalization_count = @ - 1]

\* The call of the library tag handler with Dart_kScriptTag, a null library
\* and the URL in root_lib_url: the embedder loads a script, and its
\* result is unwrapped.
LibraryTagHandler(w, script) ==
  [LoadScript(w, script) EXCEPT
     !.start_reload.url = w.start_reload.root_lib_url,
     !.start_reload.result = script.error]

\* The last statement of StartReload.
ReportLoadError(w) ==
  IF w.start_reload.result # ""
    THEN ReportError(w, w.start_reload.result) ELSE w

\* StartReload: the stack is switched to unoptimized code, then comes the
\* checkpoint, then the library tag handler is invoked on
\* the root library's URL and loads the script; its error, if any, is
\* reported.
StartReload ==
  /\ pc = "Idle"
  /\ reloads < MaxReloads
  /\ \E script \in ReloadScripts :
       LET w1 == Checkpoint(SwitchStackToUnoptimizedCode(
                              GrabRootLibrary(World)))
           w2 == UnblockClassFinalization(
                   LibraryTagHandler(BlockClassFinalization(w1), script))
           w3 == ReportLoadError(w2)
       IN /\ Install(w3)
          /\ pre' = [Snapshot(World) EXCEPT !.running = Running,
                                            !.loading = script.tag]
  /\ pc' = "Checkpointed"
  /\ phases' = <<>>
  /\ reloads' = reloads + 1
  /\ UNCHANGED <<background_compiler, before, after>>

\* The order with the compaction right after the class-table swap and the
\* rehash before Become.
PhaseAfter_CompactionAndRehashFirst(p) ==
  CASE p = "ValidateReload" -> "CopyStaticFieldsAndPatchFieldsAndFunctions"
    [] p = "CopyStaticFieldsAndPatchFieldsAndFunctions" -> "ReplaceClasses"
    [] p = "ReplaceClasses" -> "CompactClassTable"
    [] p = "CompactClassTable" -> "CopyLibraryBits"
    [] p = "CopyLibraryBits" -> "UpdateLibrariesArray"
    [] p = "UpdateLibrariesArray" -> "RehashCanonicalTypeArguments"
    [] p = "RehashCanonicalTypeArguments" -> "Become"
    [] p = "Become" -> "PostCommit"
    [] p = "PostCommit" -> "Enable"
    [] p = "Rollback" -> "Enable"

\* The order of the steps of FinishReload and Commit: the step that follows
\* step p when p does not fail.
PhaseAfter(p) ==
  CASE p = "ValidateReload" -> "CopyStaticFieldsAndPatchFieldsAndFunctions"
    [] p = "CopyStaticFieldsAndPatchFieldsAndFunctions" -> "ReplaceClasses"
    [] p = "ReplaceClasses" -> "CopyLibraryBits"
    [] p = "CopyLibraryBits" -> "UpdateLibrariesArray"
    [] p = "UpdateLibrariesArray" -> "Become"
    [] p = "Become" -> "CompactClassTable"
    [] p = "CompactClassTable" -> "RehashCanonicalTypeArguments"
    [] p = "RehashCanonicalTypeArguments" -> "PostCommit"
    [] p = "PostCommit" -> "Enable"
    [] p = "Rollback" -> "Enable"

\* One step of FinishReload that cannot fail: it leaves the isolate as w.
Step(name, w) ==
  /\ pc = name
  /\ Install(w)
  /\ pc' = PhaseAfter(name)
  /\ phases' = Append(phases, name)
  /\ UNCHANGED <<background_compiler, pre, reloads, before, after>>

\* BackgroundCompiler::Disable and BackgroundCompiler::Enable: the value of
\* the isolate's flag after the call.  While the flag is false the helper
\* thread compiles nothing.
BackgroundCompilerDisable_LeftRunning(enabled) == enabled

BackgroundCompilerDisable(enabled) == FALSE

BackgroundCompilerEnable(enabled) == TRUE

\* The entry of FinishReload: the background compiler is disabled and the
\* become map is allocated.
FinishReloadBegin ==
  /\ pc = "Checkpointed"
  /\ background_compiler' = BackgroundCompilerDisable(background_compiler)
  /\ Install([World EXCEPT !.ctx.become_map = <<>>])
  /\ pre' = [pre EXCEPT !.finish_events = Len(events)]
  /\ pc' = "BuildMappings"
  /\ UNCHANGED <<phases, reloads, before, after>>

\* FinishReload from there to the call of ValidateReload.
FinishReloadBuildMappings ==
  /\ pc = "BuildMappings"
  /\ Install(BuildLibraryMapping(BuildClassMapping(World)))
  /\ pc' = "ValidateReload"
  /\ phases' = <<"BuildClassMapping", "BuildLibraryMapping">>
  /\ UNCHANGED <<background_compiler, pre, reloads, before, after>>

Validate ==
  /\ pc = "ValidateReload"
  /\ \E build \in Builds :
       LET r == ValidateReload(World, build)
       IN /\ Install(r.w)
          /\ pc' = IF r.w.fatal # "" THEN "Aborted"
                   ELSE IF r.ok THEN PhaseAfter("ValidateReload")
                   ELSE "Rollback"
  /\ phases' = Append(phases, "ValidateReload")
  /\ UNCHANGED <<background_compiler, pre, reloads, before, after>>

CommitReconcile ==
  Step("CopyStaticFieldsAndPatchFieldsAndFunctions",
       CopyStaticFieldsAndPatchFieldsAndFunctions(World))

CommitReplaceClasses == Step("ReplaceClasses", ReplaceClasses(World))

CommitCopyLibraryBits == Step("CopyLibraryBits", CopyLibraryBits(World))

CommitUpdateLibrariesArray ==
  Step("UpdateLibrariesArray", UpdateLibrariesArray(World))

\* The before and after arrays are filled from the become map, then
\* Become::ElementsForwardIdentity runs; a FATAL ends the process.
CommitBecome ==
  /\ pc = "Become"
  /\ before' = [i \in DOMAIN ctx.become_map |-> ctx.become_map[i].key]
  /\ after' = [i \in DOMAIN ctx.become_map |-> ctx.become_map[i].value]
  /\ LET w == ElementsForwardIdentity(World, before', after')
     IN /\ Install(w)
        /\ pc' = IF w.fatal = "" THEN PhaseAfter("Become") ELSE "Aborted"
  /\ phases' = Append(phases, "Become")
  /\ UNCHANGED <<background_compiler, pre, reloads>>

CommitCompactClassTable == Step("CompactClassTable", CompactClassTable(World))

\* The last statements of Commit: the rehash, then dead_classes_ is freed.
CommitRehash ==
  Step("RehashCanonicalTypeArguments",
       [RehashCanonicalTypeArguments(World) EXCEPT !.ctx.dead_classes = <<>>])

PostCommit(w) ==
  InvalidateWorld([w EXCEPT !.ctx.saved_root_library = Null,
                            !.ctx.saved_libraries = <<>>])

PostCommitStep == Step("PostCommit", PostCommit(World))

RollbackStep == Step("Rollback", Rollback(World))

\* The end of FinishReload.
FinishReloadEnd ==
  /\ pc = "Enable"
  /\ background_compiler' = BackgroundCompilerEnable(background_compiler)
  /\ pc' = "Finished"
  /\ UNCHANGED <<heap, class_table, libraries, root_library,
                 compile_time_constants, canonical_type_arguments,
                 megamorphic_cache_table, defer_finalization_count,
                 start_reload, ctx,
                 events, phases, pre, reloads, before, after, fatal, stack,
                 returns>>

\* The isolate deletes the context once the reload is over.
DeleteReloadContext ==
  /\ pc \in {"Finished", "AbortReturned"}
  /\ ctx' = NewContext
  /\ pc' = "Idle"
  /\ UNCHANGED <<heap, class_table, libraries, root_library,
                 compile_time_constants, canonical_type_arguments,
                 megamorphic_cache_table, defer_finalization_count,
                 start_reload, events,
                 background_compiler, phases, pre, reloads, before, after,
                 fatal, stack, returns>>

Next ==
  \/ AllocateInstance
  \/ StoreStaticField
  \/ StartReload
  \/ FinishReloadBegin
  \/ FinishReloadBuildMappings
  \/ Validate
  \/ CommitReconcile
  \/ CommitReplaceClasses
  \/ CommitCopyLibraryBits
  \/ CommitUpdateLibrariesArray
  \/ CommitBecome
  \/ CommitCompactClassTable
  \/ CommitRehash
  \/ PostCommitStep
  \/ RollbackStep
  \/ FinishReloadEnd
  \/ DeleteReloadContext

Spec == Init /\ [][Next]_vars

---------------------------------------------------------------------------
(* Become::ElementsForwardIdentity called on arbitrary arrays *)

\* The heap of the initial isolate with dart:core in the VM isolate's heap,
\* an instance of A in new space that refers to A's static field, and a
\* free-list element.
BecomeWorld ==
  LET w == InitialWorld
  IN [w EXCEPT !.heap =
        [w.heap EXCEPT ![1].vm = TRUE]
        \o <<[NewInstance(2, <<w.heap[ClassAt(w, 2)].fields[1]>>)
                EXCEPT !.old = FALSE],
              [kind |-> "FreeListElement", vm |-> FALSE, old |-> TRUE,
               size |-> 1, next |-> Null]>>]

\* What the arrays may hold: an immediate, the VM-heap library, class A,
\* its static field, class B, the new-space instance, the free-list
\* element.  The after array holds heap objects.
BeforeCandidates ==
  {-1, 1, ClassAt(BecomeWorld, 2),
   BecomeWorld.heap[ClassAt(BecomeWorld, 2)].fields[1],
   Len(BecomeWorld.heap) - 1, Len(BecomeWorld.heap)}

AfterCandidates ==
  {ClassAt(BecomeWorld, 2),
   BecomeWorld.heap[ClassAt(BecomeWorld, 2)].fields[1],
   ClassAt(BecomeWorld, 3),
   Len(BecomeWorld.heap) - 1, Len(BecomeWorld.heap)}

InitBecome ==
  /\ heap = BecomeWorld.heap
  /\ class_table = BecomeWorld.class_table
  /\ libraries = BecomeWorld.libraries
  /\ root_library = BecomeWorld.root_library
  /\ compile_time_constants = BecomeWorld.compile_time_constants
  /\ canonical_type_arguments = BecomeWorld.canonical_type_arguments
  /\ megamorphic_cache_table = BecomeWorld.megamorphic_cache_table
  /\ defer_finalization_count = 0
  /\ start_reload = NoActivation
  /\ ctx = NewContext
  /\ events = <<>>
  /\ fatal = ""
  /\ stack = <<>>
  /\ returns = <<>>
  /\ background_compiler = TRUE
  /\ pc = "Call"
  /\ phases = <<>>
  /\ pre = Snapshot(BecomeWorld)
  /\ reloads = 0
  /\ \E n \in 1..MaxBecomeLength :
       /\ before \in [1..n -> BeforeCandidates]
       /\ after \in [1..n -> AfterCandidates]

BecomeCall ==
  /\ pc = "Call"
  /\ LET w == ElementsForwardIdentity(World, before, after)
     IN /\ Install(w)
        /\ pc' = IF w.fatal = "" THEN "Returned" ELSE "Aborted"
  /\ UNCHANGED <<background_compiler, phases, pre, reloads, before, after>>

NextBecome == BecomeCall

SpecBecome == InitBecome /\ [][NextBecome]_vars

---------------------------------------------------------------------------
(* Reloads requested by the running program, with a frame on the stack *)

\* The call sites the suspended frame may be at: a static call of A.m, a
\* super call that targets the instance method A.i, an instance call of i
\* on an instance of A that has A.i cached.
LiveCallSites ==
  LET w == InitialWorld
      A == ClassAt(w, 2)
  IN {NewICData(TRUE, LookupFunction(w.heap, A, "m", TRUE), "m", -1),
      NewICData(TRUE, LookupFunction(w.heap, A, "i", FALSE), "i", -1),
      NewICData(FALSE, LookupFunction(w.heap, A, "i", FALSE), "i", 2)}

\* The initial isolate with an activation of B.m in flight, in unoptimized
\* code, or in optimized code with the unoptimized code dropped.
LiveStackWorld(ic, optimized) ==
  LET w == InitialWorld
      caller == LookupFunction(w.heap, ClassAt(w, 3), "m", TRUE)
  IN [w EXCEPT !.heap[caller].code =
                  IF optimized THEN Null ELSE w.heap[caller].body,
               !.heap[caller].ic_data_array = TRUE,
               !.heap[caller].has_optimized_code = optimized,
               !.stack = <<NewFrame(caller, w.heap[caller].body, optimized,
                                    ic)>>]

InitLiveStack ==
  \E ic \in LiveCallSites : \E optimized \in BOOLEAN :
    LET w == LiveStackWorld(ic, optimized)
    IN /\ heap = w.heap
       /\ class_table = w.class_table
       /\ libraries = w.libraries
       /\ root_library = w.root_library
       /\ compile_time_constants = w.compile_time_constants
       /\ canonical_type_arguments = w.canonical_type_arguments
       /\ megamorphic_cache_table = w.megamorphic_cache_table
       /\ defer_finalization_count = 0
       /\ start_reload = NoActivation
       /\ ctx = NewContext
       /\ events = <<>>
       /\ fatal = ""
       /\ stack = w.stack
       /\ returns = <<>>
       /\ background_compiler = TRUE
       /\ pc = "Idle"
       /\ phases = <<>>
       /\ pre = Snapshot(w)
       /\ reloads = 0
       /\ before = <<>>
       /\ after = <<>>

\* Lazy compilation of a function that is entered: its code is compiled
\* from its own source.
Compile(h, func) ==
  [h EXCEPT ![func].code = h[func].body, ![func].ic_data_array = TRUE]

\* The function the call site of a frame dispatches to: the target of its
\* ICData, or when the ICData holds no check the method the class of the
\* receiver has under the name.
Dispatch(w, ic) ==
  IF ic.target # Null THEN ic.target
  ELSE LookupFunction(w.heap, ClassAt(w, ic.receiver_cid), ic.name, FALSE)

\* The youngest frame makes its call and returns.
Resume ==
  /\ pc = "Idle"
  /\ stack # <<>>
  /\ LET frame == stack[Len(stack)]
         target == Dispatch(World, frame.ic)
     IN /\ target # Null
        /\ heap' = Compile(heap, target)
        /\ stack' = SubSeq(stack, 1, Len(stack) - 1)
        /\ returns' = Append(returns,
                             [function |-> frame.function,
                              code |-> frame.code, fresh |-> FALSE,
                              called |-> target, ran |-> heap[target].body])
  /\ UNCHANGED <<class_table, libraries, root_library, compile_time_constants,
                 canonical_type_arguments,
                 megamorphic_cache_table, defer_finalization_count,
                 start_reload, ctx, events, background_compiler,
                 pc, phases, pre, reloads, before, after, fatal>>

\* Dart_Invoke of the static method m of a class found in the dictionary of
\* the root library: the activation runs to its end.
FreshInvoke ==
  /\ pc = "Idle"
  /\ Cardinality({i \in DOMAIN returns : returns[i].fresh}) < MaxInvocations
  /\ \E k \in DOMAIN heap[root_library].dictionary :
       LET func == LookupStaticFunction(heap,
                                        heap[root_library].dictionary[k], "m")
       IN /\ func # Null
          /\ heap' = Compile(heap, func)
          /\ returns' = Append(returns,
                               [function |-> func, code |-> heap[func].body,
                                fresh |-> TRUE, called |-> Null, ran |-> 0])
  /\ UNCHANGED <<class_table, libraries, root_library, compile_time_constants,
                 canonical_type_arguments,
                 megamorphic_cache_table, defer_finalization_count,
                 start_reload, ctx, events, background_compiler,
                 pc, phases, pre, reloads, before, after, fatal, stack>>

NextLiveStack ==
  \/ Resume
  \/ FreshInvoke
  \/ StartReload
  \/ FinishReloadBegin
  \/ FinishReloadBuildMappings
  \/ Validate
  \/ CommitReconcile
  \/ CommitReplaceClasses
  \/ CommitCopyLibraryBits
  \/ CommitUpdateLibrariesArray
  \/ CommitBecome
  \/ CommitCompactClassTable
  \/ CommitRehash
  \/ PostCommitStep
  \/ RollbackStep
  \/ FinishReloadEnd
  \/ DeleteReloadContext

SpecLiveStack == InitLiveStack /\ [][NextLiveStack]_vars

---------------------------------------------------------------------------
(* RehashCanonicalTypeArguments called on arbitrary tables *)

MaxTypeArguments == 4

\* The initial isolate with further type-arguments vectors in its heap:
\* after <A> and <A, B> come a second <A>, then <B, B>, whose hash is that
\* of <A> modulo the capacity, then <B>.
RehashWorld ==
  LET w == InitialWorld
      A == ClassAt(w, 2)
      B == ClassAt(w, 3)
      more == <<NewTypeArguments(<<A>>), NewTypeArguments(<<B, B>>),
                NewTypeArguments(<<B>>)>>
  IN [w EXCEPT !.heap = w.heap \o SubSeq(more, 1, MaxTypeArguments - 2)]

TypeArgumentsOf(h) == {o \in DOMAIN h : h[o].kind = "TypeArguments"}

\* The tables Commit may find at the rehash: Become has forwarded the
\* classes the vectors refer to, so a vector may sit in any slot, whatever
\* its hash, and two vectors of the table may be equal.  The last slot
\* holds the number of used slots.
RehashTables ==
  LET table_size == Len(InitialWorld.canonical_type_arguments) - 1
      slots == {t \in [1..table_size ->
                         TypeArgumentsOf(RehashWorld.heap) \cup {Null}] :
                  \A i, j \in 1..table_size :
                    (i # j /\ t[i] # Null) => t[i] # t[j]}
  IN {Append(t, Cardinality({i \in 1..table_size : t[i] # Null})) :
        t \in slots}

InitRehash ==
  \E table \in RehashTables :
    LET w == [RehashWorld EXCEPT !.canonical_type_arguments = table]
    IN /\ heap = w.heap
       /\ class_table = w.class_table
       /\ libraries = w.libraries
       /\ root_library = w.root_library
       /\ compile_time_constants = w.compile_time_constants
       /\ canonical_type_arguments = w.canonical_type_arguments
       /\ megamorphic_cache_table = w.megamorphic_cache_table
       /\ defer_finalization_count = 0
       /\ start_reload = NoActivation
       /\ ctx = NewContext
       /\ events = <<>>
       /\ fatal = ""
       /\ stack = <<>>
       /\ returns = <<>>
       /\ background_compiler = FALSE
       /\ pc = "RehashCall"
       /\ phases = <<>>
       /\ pre = Snapshot(w)
       /\ reloads = 0
       /\ before = <<>>
       /\ after = <<>>

RehashCall ==
  /\ pc = "RehashCall"
  /\ Install(RehashCanonicalTypeArguments(World))
  /\ pc' = "Rehashed"
  /\ UNCHANGED <<background_compiler, phases, pre, reloads, before, after>>

NextRehash == RehashCall

SpecRehash == InitRehash /\ [][NextRehash]_vars

---------------------------------------------------------------------------
(* IsSameClass called on arbitrary pairs of classes *)

\* The initial isolate after the load of a second library with the URL of
\* the first and of a library with another URL, none of them with classes.
SameClassWorld ==
  LoadLibrary(LoadLibrary(InitialWorld, LibDecl("app", <<>>), 0, 2),
              LibDecl("lib2", <<>>), 0, 2)

\* What the classes handed to IsSameClass may be: a class named A or B, of
\* no library or of a library that is not dart_scheme, a patch class or not.
SameClassCandidates ==
  LET w == SameClassWorld
      libs == {Null} \cup {l \in DOMAIN w.heap :
                             w.heap[l].kind = "Library"
                             /\ ~w.heap[l].is_dart_scheme}
  IN {[w.heap[ClassAt(w, 2)] EXCEPT !.name = n, !.library = l,
                                    !.is_patch = p] :
        n \in {"A", "B"}, l \in libs, p \in BOOLEAN}

\* The two classes are the last two objects of the heap.
InitSameClass ==
  \E a \in SameClassCandidates : \E b \in SameClassCandidates :
    LET w == [SameClassWorld EXCEPT !.heap = @ \o <<a, b>>]
    IN /\ heap = w.heap
       /\ class_table = w.class_table
       /\ libraries = w.libraries
       /\ root_library = w.root_library
       /\ compile_time_constants = w.compile_time_constants
       /\ canonical_type_arguments = w.canonical_type_arguments
       /\ megamorphic_cache_table = w.megamorphic_cache_table
       /\ defer_finalization_count = 0
       /\ start_reload = NoActivation
       /\ ctx = NewContext
       /\ events = <<>>
       /\ fatal = ""
       /\ stack = <<>>
       /\ returns = <<>>
       /\ background_compiler = TRUE
       /\ pc = "IsSameClassCall"
       /\ phases = <<>>
       /\ pre = Snapshot(w)
       /\ reloads = 0
       /\ before = <<>>
       /\ after = <<>>

IsSameClassCall ==
  /\ pc = "IsSameClassCall"
  /\ pc' = IF IsSameClass(heap, Len(heap) - 1, Len(heap))
             THEN "IsSameClassTrue" ELSE "IsSameClassFalse"
  /\ phases' = <<"IsSameClass">>
  /\ UNCHANGED <<heap, class_table, libraries, root_library,
                 compile_time_constants, canonical_type_arguments,
                 megamorphic_cache_table, defer_finalization_count,
                 start_reload, ctx,
                 events, background_compiler, pre, reloads, before, after,
                 fatal, stack, returns>>

NextSameClass == IsSameClassCall

SpecSameClass == InitSameClass /\ [][NextSameClass]_vars

---------------------------------------------------------------------------
(* Checkpoint, the loader and Rollback on arbitrary library lists *)

\* An isolate that has also loaded the libraries dart:io and lib2.
CheckpointBase ==
  LET w == LoadLibrary(LoadLibrary(InitialWorld, LibDecl("dart:io", <<>>),
                                   0, InitialScript.tag),
                       LibDecl("lib2", <<>>), 0, InitialScript.tag)
  IN [w EXCEPT !.heap[w.libraries[3]].is_dart_scheme = TRUE]

\* The orders in which the libraries may have been registered.
RegistrationOrders ==
  LET n == Len(CheckpointBase.libraries)
  IN {p \in [1..n -> 1..n] : \A i, j \in 1..n : p[i] = p[j] => i = j}

\* The isolate with its libraries registered in the order p, each with the
\* index Library::Register gave it, and with the root library root.
CheckpointWorld(p, root) ==
  LET w == CheckpointBase
      libs == [i \in DOMAIN p |-> w.libraries[p[i]]]
      Position(o) == CHOOSE i \in DOMAIN libs : libs[i] = o
  IN [w EXCEPT
        !.libraries = libs,
        !.root_library = root,
        !.heap = [o \in DOMAIN w.heap |->
                    IF w.heap[o].kind = "Library"
                      THEN [w.heap[o] EXCEPT !.index = Position(o) - 1]
                      ELSE w.heap[o]]]

InitCheckpoint ==
  \E p \in RegistrationOrders :
    \E root \in {CheckpointBase.libraries[i] :
                   i \in DOMAIN CheckpointBase.libraries} :
      LET w == CheckpointWorld(p, root)
      IN /\ heap = w.heap
         /\ class_table = w.class_table
         /\ libraries = w.libraries
         /\ root_library = w.root_library
         /\ compile_time_constants = w.compile_time_constants
         /\ canonical_type_arguments = w.canonical_type_arguments
         /\ megamorphic_cache_table = w.megamorphic_cache_table
         /\ defer_finalization_count = 0
         /\ start_reload = NoActivation
         /\ ctx = NewContext
         /\ events = <<>>
         /\ fatal = ""
         /\ stack = <<>>
         /\ returns = <<>>
         /\ background_compiler = TRUE
         /\ pc = "CheckpointCall"
         /\ phases = <<>>
         /\ pre = Snapshot(w)
         /\ reloads = 0
         /\ before = <<>>
         /\ after = <<>>

CheckpointCall ==
  /\ pc = "CheckpointCall"
  /\ Install(Checkpoint(World))
  /\ pc' = "CheckpointReturned"
  /\ phases' = <<"Checkpoint">>
  /\ UNCHANGED <<background_compiler, pre, reloads, before, after>>

\* The library tag handler loads a script, as far as it gets.
LoaderActivity ==
  /\ pc = "CheckpointReturned"
  /\ \E script \in ReloadScripts : Install(LoadScript(World, script))
  /\ pc' = "Loaded"
  /\ phases' = Append(phases, "Load")
  /\ UNCHANGED <<background_compiler, pre, reloads, before, after>>

RollbackCall ==
  /\ pc \in {"CheckpointReturned", "Loaded"}
  /\ Install(Rollback(World))
  /\ pc' = "RollbackReturned"
  /\ phases' = Append(phases, "Rollback")
  /\ UNCHANGED <<background_compiler, pre, reloads, before, after>>

NextCheckpoint ==
  \/ CheckpointCall
  \/ LoaderActivity
  \/ RollbackCall

SpecCheckpoint == InitCheckpoint /\ [][NextCheckpoint]_vars

---------------------------------------------------------------------------
(* Reloads of a program whose functions have run *)

\* What a function may have when a reload starts: never compiled (the
\* stub, no ICData array, counters at zero); compiled ("unoptimized");
\* compiled and optimized ("both"); optimized with the unoptimized code
\* dropped since ("optimized").  A function that was compiled has an ICData
\* array with its edge counters, and counters that have counted.
CodeStates == {"stub", "unoptimized", "both", "optimized"}

WithCode(func, state) ==
  IF state = "stub" THEN func
  ELSE [func EXCEPT
          !.code = IF state = "optimized" THEN Null ELSE func.body,
          !.has_optimized_code = state \in {"both", "optimized"},
          !.ic_data_array = TRUE,
          !.edge_counters = 1,
          !.usage_counter = 1,
          !.deoptimization_counter =
             IF state = "unoptimized" THEN 1 ELSE 0]

\* The initial isolate with Object.m of dart:core and A.m of the script in
\* these states.
InvalidateWorldInput(core_state, app_state) ==
  LET w == InitialWorld
      core_m == LookupFunction(w.heap, ClassAt(w, 1), "m", TRUE)
      app_m == LookupFunction(w.heap, ClassAt(w, 2), "m", TRUE)
  IN [w EXCEPT !.heap[core_m] = WithCode(@, core_state),
               !.heap[app_m] = WithCode(@, app_state)]

InitInvalidate ==
  \E core_state \in CodeStates : \E app_state \in CodeStates :
    LET w == InvalidateWorldInput(core_state, app_state)
    IN /\ heap = w.heap
       /\ class_table = w.class_table
       /\ libraries = w.libraries
       /\ root_library = w.root_library
       /\ compile_time_constants = w.compile_time_constants
       /\ canonical_type_arguments = w.canonical_type_arguments
       /\ megamorphic_cache_table = w.megamorphic_cache_table
       /\ defer_finalization_count = 0
       /\ start_reload = NoActivation
       /\ ctx = NewContext
       /\ events = <<>>
       /\ fatal = ""
       /\ stack = <<>>
       /\ returns = <<>>
       /\ background_compiler = TRUE
       /\ pc = "Idle"
       /\ phases = <<>>
       /\ pre = Snapshot(w)
       /\ reloads = 0
       /\ before = <<>>
       /\ after = <<>>

NextInvalidate ==
  \/ StartReload
  \/ FinishReloadBegin
  \/ FinishReloadBuildMappings
  \/ Validate
  \/ CommitReconcile
  \/ CommitReplaceClasses
  \/ CommitCopyLibraryBits
  \/ CommitUpdateLibrariesArray
  \/ CommitBecome
  \/ CommitCompactClassTable
  \/ CommitRehash
  \/ PostCommitStep
  \/ RollbackStep
  \/ FinishReloadEnd
  \/ DeleteReloadContext

SpecInvalidate == InitInvalidate /\ [][NextInvalidate]_vars

---------------------------------------------------------------------------
(* BuildClassMapping and CompactClassTable on arbitrary sets of classes *)

\* The scripts loaded: one library app that declares up to
\* MaxLoadedClasses of the classes A, B, C, D and E, in any order.
LoadedDecls == <<ClsA(-2, <<"f">>), ClsB, ClsC, ClsD, ClsE>>

MappingScripts ==
  {Good(6, <<LibDecl("app", [i \in DOMAIN order |-> LoadedDecls[order[i]]])>>) :
     order \in UNION {{o \in [1..n -> DOMAIN LoadedDecls] :
                         \A i, j \in 1..n : o[i] = o[j] => i = j} :
                      n \in 1..MaxLoadedClasses}}

\* The isolate when FinishReload calls BuildClassMapping.
MappingInput(script) ==
  LoadScript(Checkpoint([InitialWorld EXCEPT !.ctx = NewContext]), script)

\* The isolate when Commit calls CompactClassTable.
CompactInput(script) ==
  LET w1 == BuildLibraryMapping(BuildClassMapping(MappingInput(script)))
      w2 == UpdateLibrariesArray(
              CopyLibraryBits(
                ReplaceClasses(
                  CopyStaticFieldsAndPatchFieldsAndFunctions(w1))))
  IN ElementsForwardIdentity(
       w2,
       [i \in DOMAIN w2.ctx.become_map |-> w2.ctx.become_map[i].key],
       [i \in DOMAIN w2.ctx.become_map |-> w2.ctx.become_map[i].value])

InitMapping ==
  \E script \in MappingScripts : \E compact \in BOOLEAN :
    LET w == IF compact THEN CompactInput(script) ELSE MappingInput(script)
    IN /\ heap = w.heap
       /\ class_table = w.class_table
       /\ libraries = w.libraries
       /\ root_library = w.root_library
       /\ compile_time_constants = w.compile_time_constants
       /\ canonical_type_arguments = w.canonical_type_arguments
       /\ megamorphic_cache_table = w.megamorphic_cache_table
       /\ defer_finalization_count = 0
       /\ start_reload = NoActivation
       /\ ctx = w.ctx
       /\ events = <<>>
       /\ fatal = w.fatal
       /\ stack = <<>>
       /\ returns = <<>>
       /\ background_compiler = FALSE
       /\ pc = IF compact THEN "CompactClassTableCall"
               ELSE "BuildClassMappingCall"
       /\ phases = <<>>
       /\ pre = Snapshot(w)
       /\ reloads = 1
       /\ before = <<>>
       /\ after = <<>>

BuildClassMappingCall ==
  /\ pc = "BuildClassMappingCall"
  /\ Install(BuildClassMapping(World))
  /\ pc' = "BuildClassMappingReturned"
  /\ phases' = <<"BuildClassMapping">>
  /\ UNCHANGED <<background_compiler, pre, reloads, before, after>>

CompactClassTableCall ==
  /\ pc = "CompactClassTableCall"
  /\ fatal = ""
  /\ Install(CompactClassTable(World))
  /\ pc' = "CompactClassTableReturned"
  /\ phases' = <<"CompactClassTable">>
  /\ UNCHANGED <<background_compiler, pre, reloads, before, after>>

NextMapping ==
  \/ BuildClassMappingCall
  \/ CompactClassTableCall

SpecMapping == InitMapping /\ [][NextMapping]_vars

---------------------------------------------------------------------------
(* Class::CanReload called on arbitrary pairs of classes *)

MaxInstanceFields == 2

FieldNames == {"f", "g"}

\* The lists of up to MaxInstanceFields instance fields with different
\* names.
InstanceFieldLists ==
  {fs \in UNION {[1..n -> FieldNames] : n \in 0..MaxInstanceFields} :
     \A i, j \in DOMAIN fs : i # j => fs[i] # fs[j]}

\* Declarations of a class A in every state, generic or not, with and
\* without a native field; a prefinalized one has a size of one or two
\* words.
ShapeDecls ==
  {[ClassDecl("A", st, [i \in DOMAIN fs |-> FieldDecl(fs[i], FALSE, Null)],
              nat)
      EXCEPT !.num_type_parameters = tp, !.instance_size = size] :
     st \in {"unfinalized", "prefinalized", "finalized", "malformed"},
     fs \in InstanceFieldLists, nat \in 0..1, tp \in 0..1,
     size \in 0..2}

\* The isolate after the load of a library that declares old_decl and of a
\* library of the same URL that declares new_decl: the two classes have the
\* last two class ids.
ShapeWorld(old_decl, new_decl) ==
  LoadLibrary(LoadLibrary(InitialWorld, LibDecl("shape", <<old_decl>>), 1, 1),
              LibDecl("shape", <<new_decl>>), 1, 2)

InitCanReload ==
  \E old_decl \in ShapeDecls : \E new_decl \in ShapeDecls :
    /\ old_decl.state # "malformed"
    /\ \A d \in {old_decl, new_decl} :
         (d.state = "prefinalized") = (d.instance_size > 0)
    /\ LET w == ShapeWorld(old_decl, new_decl)
       IN /\ heap = w.heap
          /\ class_table = w.class_table
          /\ libraries = w.libraries
          /\ root_library = w.root_library
          /\ compile_time_constants = w.compile_time_constants
          /\ canonical_type_arguments = w.canonical_type_arguments
          /\ megamorphic_cache_table = w.megamorphic_cache_table
          /\ defer_finalization_count = 0
          /\ start_reload = NoActivation
          /\ ctx = NewContext
          /\ events = <<>>
          /\ fatal = ""
          /\ stack = <<>>
          /\ returns = <<>>
          /\ background_compiler = FALSE
          /\ pc = "CanReloadCall"
          /\ phases = <<>>
          /\ pre = Snapshot(w)
          /\ reloads = 0
          /\ before = <<>>
          /\ after = <<>>

\* cls.CanReload(replacement) on the classes with the last two class ids,
\* in some build of the VM.
CanReloadCall ==
  /\ pc = "CanReloadCall"
  /\ \E build \in Builds :
       LET r == CanReload(World, ClassAt(World, NumCids(World) - 2),
                          ClassAt(World, NumCids(World) - 1), build)
       IN /\ Install(r.w)
          /\ pc' = IF r.w.fatal # "" THEN "Aborted"
                   ELSE IF r.ok THEN "CanReloadTrue"
                   ELSE "CanReloadFalse"
  /\ phases' = <<"CanReload">>
  /\ UNCHANGED <<background_compiler, pre, reloads, before, after>>

NextCanReload == CanReloadCall

SpecCanReload == InitCanReload /\ [][NextCanReload]_vars

---------------------------------------------------------------------------
(* Reloads with the background compiler at work *)

\* One step of the helper thread: while the background compiler is enabled
\* it installs optimized code for a function that has unoptimized code.
BackgroundCompile ==
  /\ background_compiler
  /\ \E function \in DOMAIN heap :
       /\ heap[function].kind = "Function"
       /\ heap[function].code # Null
       /\ ~heap[function].has_optimized_code
       /\ heap' = [heap EXCEPT ![function].has_optimized_code = TRUE]
  /\ UNCHANGED <<class_table, libraries, root_library, compile_time_constants,
                 canonical_type_arguments,
                 megamorphic_cache_table, defer_finalization_count,
                 start_reload, ctx, events, background_compiler,
                 pc, phases, pre, reloads, before, after, fatal, stack,
                 returns>>

NextBackground ==
  \/ BackgroundCompile
  \/ StartReload
  \/ FinishReloadBegin
  \/ FinishReloadBuildMappings
  \/ Validate
  \/ CommitReconcile
  \/ CommitReplaceClasses
  \/ CommitCopyLibraryBits
  \/ CommitUpdateLibrariesArray
  \/ CommitBecome
  \/ CommitCompactClassTable
  \/ CommitRehash
  \/ PostCommitStep
  \/ RollbackStep
  \/ FinishReloadEnd
  \/ DeleteReloadContext

SpecBackground == InitLiveStack /\ [][NextBackground]_vars

---------------------------------------------------------------------------
(* Reloads of a program whose embedder changes the debuggable flag of
   libraries *)

\* Dart_SetLibraryDebuggable(library_id, is_debuggable), called while no
\* reload is in progress.
SetLibraryDebuggable ==
  /\ pc = "Idle"
  /\ \E i \in DOMAIN libraries : \E is_debuggable \in BOOLEAN :
       /\ heap[libraries[i]].debuggable # is_debuggable
       /\ heap' = [heap EXCEPT ![libraries[i]].debuggable = is_debuggable]
  /\ UNCHANGED <<class_table, libraries, root_library, compile_time_constants,
                 canonical_type_arguments,
                 megamorphic_cache_table, defer_finalization_count,
                 start_reload, ctx, events, background_compiler,
                 pc, phases, pre, reloads, before, after, fatal, stack,
                 returns>>

NextDebuggable ==
  \/ SetLibraryDebuggable
  \/ StartReload
  \/ FinishReloadBegin
  \/ FinishReloadBuildMappings
  \/ Validate
  \/ CommitReconcile
  \/ CommitReplaceClasses
  \/ CommitCopyLibraryBits
  \/ CommitUpdateLibrariesArray
  \/ CommitBecome
  \/ CommitCompactClassTable
  \/ CommitRehash
  \/ PostCommitStep
  \/ RollbackStep
  \/ FinishReloadEnd
  \/ DeleteReloadContext

SpecDebuggable == Init /\ [][NextDebuggable]_vars

---------------------------------------------------------------------------
(* Reloads that the embedder may abort *)

MaxAborts == 1

\* The errors AbortReload is called with; the loader and the validation
\* report none of them.
AbortErrors == {"reload aborted"}

Aborts ==
  Cardinality({i \in DOMAIN events : events[i].error \in AbortErrors})

\* AbortReload(error), called on the mutator thread while FinishReload is
\* not running: ReportError, then Rollback.  RollbackClasses asserts
\* saved_num_cids_ > 0: on a context that has taken no checkpoint a debug
\* build stops there and a release build goes on to DropNewClasses(-1).  An
\* abort outside a reload has the state it finds as its pre-reload state.
AbortReload ==
  /\ pc \in {"Idle", "Checkpointed", "Finished"}
  /\ Aborts < MaxAborts
  /\ \E error \in AbortErrors : \E debug \in BOOLEAN :
       LET w == ReportError(World, error)
       IN IF debug /\ ~(w.ctx.saved_num_cids > 0)
            THEN /\ Install([w EXCEPT !.fatal = "ASSERT: saved_num_cids_ > 0"])
                 /\ pc' = "Aborted"
            ELSE /\ Install(Rollback(w))
                 /\ pc' = "AbortReturned"
  /\ pre' = IF pc = "Idle"
              THEN [Snapshot(World) EXCEPT !.running = Running,
                                           !.loading = Running]
              ELSE pre
  /\ phases' = Append(phases, "AbortReload")
  /\ UNCHANGED <<background_compiler, reloads, before, after>>

NextAbort ==
  \/ AbortReload
  \/ StartReload
  \/ FinishReloadBegin
  \/ FinishReloadBuildMappings
  \/ Validate
  \/ CommitReconcile
  \/ CommitReplaceClasses
  \/ CommitCopyLibraryBits
  \/ CommitUpdateLibrariesArray
  \/ CommitBecome
  \/ CommitCompactClassTable
  \/ CommitRehash
  \/ PostCommitStep
  \/ RollbackStep
  \/ FinishReloadEnd
  \/ DeleteReloadContext

SpecAbort == Init /\ [][NextAbort]_vars

---------------------------------------------------------------------------
(* PostCommit statement by statement, with Dart frames on the stack *)

\* The statement of PostCommit and InvalidateWorld that follows the
\* statement p, with the whole of MarkAllFunctionsForRecompilation first.
InvalidationAfter_MarkFirst(p) ==
  CASE p = "PostCommit" -> "MarkAllFunctionsForRecompilation"
    [] p = "MarkAllFunctionsForRecompilation" -> "ResetMegamorphicCaches"
    [] p = "ResetMegamorphicCaches" -> "DeoptimizeFunctionsOnStack"
    [] p = "DeoptimizeFunctionsOnStack" -> "ResetUnoptimizedICsOnStack"
    [] p = "ResetUnoptimizedICsOnStack" -> "Enable"

\* The statement of PostCommit and InvalidateWorld that follows the
\* statement p; "PostCommit" stands for the release of the saved libraries
\* list and of the saved root library.
InvalidationAfter(p) ==
  CASE p = "PostCommit" -> "ResetMegamorphicCaches"
    [] p = "ResetMegamorphicCaches" -> "DeoptimizeFunctionsOnStack"
    [] p = "DeoptimizeFunctionsOnStack" -> "ResetUnoptimizedICsOnStack"
    [] p = "ResetUnoptimizedICsOnStack" -> "MarkAllFunctionsForRecompilation"
    [] p = "MarkAllFunctionsForRecompilation" -> "Enable"

\* One statement: it leaves the isolate as w and logs the entries done.
\* PostCommit has returned when the statement after it is "Enable".
InvalidationStep(name, w, done) ==
  /\ pc = name
  /\ Install(w)
  /\ pc' = InvalidationAfter(name)
  /\ phases' = phases \o done
                  \o IF InvalidationAfter(name) = "Enable"
                       THEN <<"PostCommit">> ELSE <<>>
  /\ UNCHANGED <<background_compiler, pre, reloads, before, after>>

PostCommitRelease ==
  InvalidationStep("PostCommit",
                   [World EXCEPT !.ctx.saved_root_library = Null,
                                 !.ctx.saved_libraries = <<>>],
                   <<"ReleaseSaved">>)

ResetMegamorphicCachesStep ==
  InvalidationStep("ResetMegamorphicCaches", ResetMegamorphicCaches(World),
                   <<"ResetMegamorphicCaches">>)

DeoptimizeFunctionsOnStackStep ==
  InvalidationStep("DeoptimizeFunctionsOnStack",
                   DeoptimizeFunctionsOnStack(World),
                   <<"DeoptimizeFunctionsOnStack">>)

\* The NoSafepointScope and the HeapIterationScope are entered before the
\* call.
ResetUnoptimizedICsOnStackStep ==
  InvalidationStep("ResetUnoptimizedICsOnStack",
                   ResetUnoptimizedICsOnStack(World),
                   <<"NoSafepointScope", "HeapIterationScope",
                     "ResetUnoptimizedICsOnStack">>)

\* The two scopes are left after the call, the inner one first.
MarkAllFunctionsForRecompilationStep ==
  InvalidationStep("MarkAllFunctionsForRecompilation",
                   MarkAllFunctionsForRecompilation(World),
                   <<"MarkAllFunctionsForRecompilation",
                     "~HeapIterationScope", "~NoSafepointScope">>)

NextPostCommit ==
  \/ StartReload
  \/ FinishReloadBegin
  \/ FinishReloadBuildMappings
  \/ Validate
  \/ CommitReconcile
  \/ CommitReplaceClasses
  \/ CommitCopyLibraryBits
  \/ CommitUpdateLibrariesArray
  \/ CommitBecome
  \/ CommitCompactClassTable
  \/ CommitRehash
  \/ PostCommitRelease
  \/ ResetMegamorphicCachesStep
  \/ DeoptimizeFunctionsOnStackStep
  \/ ResetUnoptimizedICsOnStackStep
  \/ MarkAllFunctionsForRecompilationStep
  \/ RollbackStep
  \/ FinishReloadEnd
  \/ DeleteReloadContext

SpecPostCommit == InitLiveStack /\ [][NextPostCommit]_vars

---------------------------------------------------------------------------
(* StartReload statement by statement, called by the running program with  *)
(* a frame on the stack                                                     *)

\* The statement of StartReload that follows statement p.
StartReloadAfter(p) ==
  CASE p = "GrabRootLibrary" -> "SwitchStackToUnoptimizedCode"
    [] p = "SwitchStackToUnoptimizedCode" -> "Checkpoint"
    [] p = "Checkpoint" -> "BlockClassFinalization"
    [] p = "BlockClassFinalization" -> "library_tag_handler"
    [] p = "library_tag_handler" -> "UnblockClassFinalization"
    [] p = "UnblockClassFinalization" -> "ReportError"
    [] p = "ReportError" -> "Checkpointed"

\* One statement of StartReload: it leaves the isolate as w.
StartReloadStep(name, w) ==
  /\ pc = name
  /\ Install(w)
  /\ pc' = StartReloadAfter(name)
  /\ phases' = Append(phases, name)
  /\ UNCHANGED <<background_compiler, pre, reloads, before, after>>

StartReloadEntry ==
  /\ pc = "Idle"
  /\ reloads < MaxReloads
  /\ Install(GrabRootLibrary(World))
  /\ pre' = [Snapshot(World) EXCEPT !.running = Running]
  /\ pc' = StartReloadAfter("GrabRootLibrary")
  /\ phases' = <<"GrabRootLibrary">>
  /\ reloads' = reloads + 1
  /\ UNCHANGED <<background_compiler, before, after>>

SwitchStackToUnoptimizedCodeStep ==
  StartReloadStep("SwitchStackToUnoptimizedCode",
                  SwitchStackToUnoptimizedCode(World))

CheckpointStep == StartReloadStep("Checkpoint", Checkpoint(World))

BlockClassFinalizationStep ==
  StartReloadStep("BlockClassFinalization", BlockClassFinalization(World))

\* The thread is in native code while the embedder's handler loads a script.
LibraryTagHandlerCall ==
  /\ pc = "library_tag_handler"
  /\ \E script \in ReloadScripts :
       /\ Install(LibraryTagHandler(World, script))
       /\ pre' = [pre EXCEPT !.loading = script.tag]
  /\ pc' = StartReloadAfter("library_tag_handler")
  /\ phases' = Append(phases, "library_tag_handler")
  /\ UNCHANGED <<background_compiler, reloads, before, after>>

UnblockClassFinalizationStep ==
  StartReloadStep("UnblockClassFinalization",
                  UnblockClassFinalization(World))

StartReloadReturn == StartReloadStep("ReportError", ReportLoadError(World))

NextStartReload ==
  \/ AllocateInstance
  \/ StoreStaticField
  \/ StartReloadEntry
  \/ SwitchStackToUnoptimizedCodeStep
  \/ CheckpointStep
  \/ BlockClassFinalizationStep
  \/ LibraryTagHandlerCall
  \/ UnblockClassFinalizationStep
  \/ StartReloadReturn

\* StartReload is straight-line code and the embedder's handler returns: a
\* statement that can be executed is executed.
SpecStartReload ==
  InitLiveStack /\ [][NextStartReload]_vars /\ WF_vars(NextStartReload)

---------------------------------------------------------------------------
(* FinishReload of a reload that replaced a class E by another declaration  *)
(* of E, in a debug build and in a release build                            *)

\* Declarations of a class E with one field x: unfinalized or finalized, an
\* enum class or not, x static or an instance field.
ReconcileDecls ==
  {[ClassDecl("E", st, <<FieldDecl("x", static,
                                   IF static THEN -4 ELSE Null)>>, 0)
      EXCEPT !.is_enum = enum] :
     st \in {"unfinalized", "finalized"}, static \in BOOLEAN,
     enum \in BOOLEAN}

\* The running program: InitialScript and a library that declares old_decl.
ReconcileProgram(old_decl) ==
  LoadLibrary(InitialWorld, LibDecl("shape", <<old_decl>>), 1,
              InitialScript.tag)

\* The isolate when StartReload has returned from the load of the same
\* program with new_decl in the place of old_decl.
ReconcileWorld(old_decl, new_decl) ==
  LET script == Good(2, InitialScript.libs
                          \o <<LibDecl("shape", <<new_decl>>)>>)
      w1 == Checkpoint(SwitchStackToUnoptimizedCode(
                         GrabRootLibrary(ReconcileProgram(old_decl))))
  IN ReportLoadError(
       UnblockClassFinalization(
         LibraryTagHandler(BlockClassFinalization(w1), script)))

InitReconcile ==
  \E old_decl \in ReconcileDecls : \E new_decl \in ReconcileDecls :
    LET w == ReconcileWorld(old_decl, new_decl)
    IN /\ heap = w.heap
       /\ class_table = w.class_table
       /\ libraries = w.libraries
       /\ root_library = w.root_library
       /\ compile_time_constants = w.compile_time_constants
       /\ canonical_type_arguments = w.canonical_type_arguments
       /\ megamorphic_cache_table = w.megamorphic_cache_table
       /\ defer_finalization_count = w.defer_finalization_count
       /\ start_reload = w.start_reload
       /\ ctx = w.ctx
       /\ events = w.events
       /\ fatal = ""
       /\ stack = <<>>
       /\ returns = <<>>
       /\ background_compiler = TRUE
       /\ pc = "Checkpointed"
       /\ phases = <<>>
       /\ pre = [Snapshot(ReconcileProgram(old_decl)) EXCEPT !.loading = 2]
       /\ reloads = 1
       /\ before = <<>>
       /\ after = <<>>

\* Class::ReplaceEnum rebinds the canonical instances of the enum values.
\* The static fields of the classes here hold immediates: there is no enum
\* instance to carry over.
ReplaceEnum(w, new_cls, old_cls) == w

\* The pairs of an old field and a static new field of the same name: the
\* pairs CopyStaticFieldValues hands to AddStaticFieldMapping.
SameNamed(h, new_cls, old_cls) ==
  {pair \in {<<h[old_cls].fields[j], h[new_cls].fields[i]>> :
               i \in DOMAIN h[new_cls].fields, j \in DOMAIN h[old_cls].fields} :
     /\ h[pair[2]].is_static
     /\ h[pair[1]].name = h[pair[2]].name}

RECURSIVE ReconcileBy(_, _, _)
\* The first loop of Commit with its assertions and those of
\* AddStaticFieldMapping, which a debug build checks.  A release build
\* reads the static value of an old field that is no static field from the
\* word the two kinds of field share.
ReconcileBy(debug, w, entry) ==
  IF entry > Len(w.ctx.class_map) THEN w
  ELSE LET new_cls == w.ctx.class_map[entry].key
           cls == w.ctx.class_map[entry].value
           w1 == IF w.heap[new_cls].is_enum_class
                    /\ w.heap[new_cls].state = "finalized"
                   THEN ReplaceEnum(w, new_cls, cls) ELSE w
       IN IF new_cls = cls THEN ReconcileBy(debug, w, entry + 1)
          ELSE IF debug /\ w.heap[new_cls].is_enum_class
                             # w.heap[cls].is_enum_class
            THEN [w EXCEPT !.fatal =
                    "ASSERT: new_cls.is_enum_class() == cls.is_enum_class()"]
          ELSE IF debug /\ \E pair \in SameNamed(w.heap, new_cls, cls) :
                             ~w.heap[pair[1]].is_static
            THEN [w EXCEPT !.fatal = "ASSERT: old_field.is_static()"]
          ELSE ReconcileBy(
                 debug,
                 PatchFieldsAndFunctions(
                   CopyCanonicalConstants(
                     CopyStaticFieldValues(w1, new_cls, cls), new_cls, cls),
                   cls),
                 entry + 1)

\* The first block of Commit in either build.
CommitReconcileBy ==
  /\ pc = "CopyStaticFieldsAndPatchFieldsAndFunctions"
  /\ \E debug \in BOOLEAN :
       LET w == ReconcileBy(debug,
                            [World EXCEPT !.ctx.dead_classes =
                               [i \in 1..NumCids(World) |-> FALSE]], 1)
       IN /\ Install(w)
          /\ pc' = IF w.fatal # "" THEN "Aborted"
                   ELSE PhaseAfter("CopyStaticFieldsAndPatchFieldsAndFunctions")
  /\ phases' = Append(phases, "CopyStaticFieldsAndPatchFieldsAndFunctions")
  /\ UNCHANGED <<background_compiler, pre, reloads, before, after>>

NextReconcile ==
  \/ FinishReloadBegin
  \/ FinishReloadBuildMappings
  \/ Validate
  \/ CommitReconcileBy
  \/ CommitReplaceClasses
  \/ CommitCopyLibraryBits
  \/ CommitUpdateLibrariesArray
  \/ CommitBecome
  \/ CommitCompactClassTable
  \/ CommitRehash
  \/ PostCommitStep
  \/ RollbackStep
  \/ FinishReloadEnd

SpecReconcile == InitReconcile /\ [][NextReconcile]_vars

---------------------------------------------------------------------------
(* Vocabulary of the properties *)

Ran(p) == \E i \in DOMAIN phases : phases[i] = p

\* FinishReload has returned, after a rollback or after a commit.
RolledBack == pc = "Finished" /\ Ran("Rollback")
Committed == pc = "Finished" /\ Ran("PostCommit")

CommitPhases ==
  {"CopyStaticFieldsAndPatchFieldsAndFunctions", "ReplaceClasses",
   "CopyLibraryBits", "UpdateLibrariesArray", "Become", "CompactClassTable",
   "RehashCanonicalTypeArguments"}

\* The pointer slots of an object, in a fixed order.
SlotsOf(obj) ==
  CASE obj.kind = "Class" -> <<obj.library>> \o obj.fields \o obj.functions
    [] obj.kind = "Library" -> obj.dictionary
    [] obj.kind = "Field" -> <<obj.owner, obj.value>>
    [] obj.kind = "Function" -> <<obj.owner, obj.field>>
    [] obj.kind = "PatchClass" -> <<obj.patched_class>>
    [] obj.kind = "Instance" -> obj.fields
    [] obj.kind = "TypeArguments" -> obj.types
    [] OTHER -> <<>>

MapSlots(map) ==
  [i \in DOMAIN map |-> map[i].key] \o [i \in DOMAIN map |-> map[i].value]

\* The slots of the isolate's roots in world w.
RootSlots(w) ==
  w.class_table \o w.libraries \o <<w.root_library>>
  \o SubSeq(w.canonical_type_arguments, 1,
            Len(w.canonical_type_arguments) - 1)
  \o MapSlots(w.ctx.class_map) \o MapSlots(w.ctx.library_map)
  \o MapSlots(w.ctx.become_map)
  \o <<w.ctx.saved_root_library>> \o w.ctx.saved_libraries
  \o [i \in DOMAIN w.stack |-> w.stack[i].function]
  \o [i \in DOMAIN w.stack |-> w.stack[i].ic.target]

\* The classes loaded by the current reload that have the name and the
\* library URL of the class that was object o before the reload.
ReplacementsOf(o) ==
  {n \in (Len(pre.heap) + 1)..Len(heap) :
     /\ heap[n].kind = "Class"
     /\ heap[n].name = pre.heap[o].name
     /\ heap[heap[n].library].url = pre.heap[pre.heap[o].library].url}

\* The class-table slots that held a class before the reload.
OldSlots == {c \in DOMAIN pre.class_table : pre.class_table[c] # Null}

---------------------------------------------------------------------------
(* Properties *)

\* C1: when the loader reported an error or ValidateReload returned false,
\* once FinishReload has returned the class count, the libraries list (its
\* entries, their order and their library objects), the root library, the
\* canonical type-arguments table and the value of every static field are
\* what they were immediately before StartReload.
C1_FailedReloadIsAtomic ==
  RolledBack =>
    /\ Len(class_table) = Len(pre.class_table)
    /\ libraries = pre.libraries
    /\ \A i \in DOMAIN libraries : heap[libraries[i]] = pre.heap[libraries[i]]
    /\ root_library = pre.root_library
    /\ canonical_type_arguments = pre.canonical_type_arguments
    /\ megamorphic_cache_table = pre.megamorphic_cache_table
    /\ \A o \in DOMAIN pre.heap :
         (pre.heap[o].kind = "Field" /\ pre.heap[o].is_static)
           => (heap[o].kind = "Field" /\ heap[o].value = pre.heap[o].value)

\* A reload that loaded new classes, ran into a rejected class pair, and was
\* rolled back after the program had stored to a static
\* field.
C1_Witness ==
  /\ RolledBack
  /\ ctx.error = "Number of instance fields changed"
  /\ Len(heap) > Len(pre.heap)
  /\ \E o \in DOMAIN pre.heap :
       pre.heap[o].kind = "Field" /\ pre.heap[o].value = -9

\* Whether validation has to accept: no error reported so far, and CanReload
\* accepts every pair of the class map whose two classes differ.
Acceptable ==
  /\ ~ctx.has_error
  /\ \A e \in DOMAIN ctx.class_map :
       ctx.class_map[e].key # ctx.class_map[e].value
         => \A build \in Builds :
              CanReload(World, ctx.class_map[e].value, ctx.class_map[e].key,
                        build).ok

\* C2: FinishReload goes on to Commit and then PostCommit exactly when no
\* error was reported before validation and CanReload accepts every class
\* pair with new different from old, and to Rollback otherwise; when it
\* returns it has run either all of Commit followed by PostCommit and no
\* Rollback, or Rollback and no part of Commit or PostCommit.
C2_CommitIffValid ==
  [][/\ pc = "ValidateReload" =>
          pc' = IF Acceptable
                  THEN "CopyStaticFieldsAndPatchFieldsAndFunctions"
                  ELSE "Rollback"
     /\ pc' = "Finished" =>
          LET Did(p) == \E i \in DOMAIN phases' : phases'[i] = p
          IN \/ /\ \A p \in CommitPhases : Did(p)
                /\ phases'[Len(phases')] = "PostCommit"
                /\ ~Did("Rollback")
             \/ /\ \A p \in CommitPhases \cup {"PostCommit"} : ~Did(p)
                /\ phases'[Len(phases')] = "Rollback"]_vars

\* FinishReload has returned after CanReload rejected a pair.
C2_Witness ==
  /\ RolledBack
  /\ ctx.error = "Name of instance field changed"

\* C3: after a successful reload every class that existed before it and has
\* a replacement has that replacement in its old class-table slot, the
\* replacement's id being the old cid; every other slot below the pre-reload
\* class count holds what it held.
C3_CidStability ==
  Committed =>
    /\ Len(class_table) >= Len(pre.class_table)
    /\ \A c \in DOMAIN pre.class_table :
         IF c \in OldSlots /\ ReplacementsOf(pre.class_table[c]) # {}
           THEN /\ class_table[c] \in ReplacementsOf(pre.class_table[c])
                /\ heap[class_table[c]].id = c - 1
           ELSE class_table[c] = pre.class_table[c]

\* A commit that replaced a class, kept a class that has no replacement and
\* added classes.
C3_Witness ==
  /\ Committed
  /\ Len(class_table) > Len(pre.class_table)
  /\ \E c \in OldSlots : ReplacementsOf(pre.class_table[c]) # {}
  /\ \E c \in OldSlots :
       /\ pre.heap[pre.class_table[c]].name = "B"
       /\ ReplacementsOf(pre.class_table[c]) = {}

\* The instances allocated before the reload whose class has a replacement.
SurvivingInstances ==
  {o \in DOMAIN pre.heap :
     /\ pre.heap[o].kind = "Instance"
     /\ ReplacementsOf(pre.class_table[pre.heap[o].cid + 1]) # {}}

\* C4: after a successful reload an object allocated before it whose class
\* was replaced has the header cid and the instance field values it had,
\* and the class table holds the replacement class at that cid.
C4_InstanceContinuity ==
  Committed =>
    \A o \in SurvivingInstances :
      /\ heap[o].kind = "Instance"
      /\ heap[o].cid = pre.heap[o].cid
      /\ heap[o].fields = pre.heap[o].fields
      /\ heap[o].cid + 1 \in DOMAIN class_table
      /\ class_table[heap[o].cid + 1]
           \in ReplacementsOf(pre.class_table[pre.heap[o].cid + 1])

\* A commit that restructured the class table with an instance of the
\* replaced class A on the heap.
C4_Witness ==
  /\ Committed
  /\ Len(class_table) > Len(pre.class_table)
  /\ \E o \in SurvivingInstances : Len(heap[o].fields) = 1

\* The pairs <<old field, new field>> of static fields of the same name of a
\* class that existed before the reload and of its replacement.
CarriedStaticFields ==
  {pair \in (DOMAIN pre.heap) \X (DOMAIN heap) :
     \E c \in OldSlots : \E n \in ReplacementsOf(pre.class_table[c]) :
       /\ \E i \in DOMAIN pre.heap[pre.class_table[c]].fields :
            pre.heap[pre.class_table[c]].fields[i] = pair[1]
       /\ \E j \in DOMAIN heap[n].fields : heap[n].fields[j] = pair[2]
       /\ pre.heap[pair[1]].is_static
       /\ heap[pair[2]].is_static
       /\ pre.heap[pair[1]].name = heap[pair[2]].name}

\* C5: after a successful reload, for every replaced class and every static
\* field name present in the old and in the new class, the new field holds
\* the value the old field held when the reload committed, not the value of
\* the new initializer, and every slot that referred to the old field object
\* refers to the new field object.
C5_StaticPreservation ==
  Committed =>
    \A pair \in CarriedStaticFields :
      /\ heap[pair[2]].value = pre.heap[pair[1]].value
      /\ \A x \in DOMAIN pre.heap :
           heap[x].kind # "FreeListElement" =>
             /\ Len(SlotsOf(heap[x])) = Len(SlotsOf(pre.heap[x]))
             /\ \A k \in DOMAIN SlotsOf(pre.heap[x]) :
                  SlotsOf(pre.heap[x])[k] = pair[1]
                    => SlotsOf(heap[x])[k] = pair[2]
      /\ \A k \in DOMAIN RootSlots(World) : RootSlots(World)[k] # pair[1]

\* A commit that carried over a value the program had stored, which differs
\* from the new initializer, with a function of the old class referring to
\* the field.
C5_Witness ==
  /\ Committed
  /\ \E pair \in CarriedStaticFields :
       /\ pre.heap[pair[1]].value = -9
       /\ heap[pair[2]].value = -9
       /\ \E x \in DOMAIN pre.heap :
            /\ pre.heap[x].kind = "Function"
            /\ pre.heap[x].field = pair[1]
            /\ heap[x].kind = "Function"

\* No root and no slot of a live heap object refers to a forwarding corpse.
NoForwardingCorpseReferenced ==
  /\ \A k \in DOMAIN RootSlots(World) :
       IsHeapObject(RootSlots(World)[k])
         => heap[RootSlots(World)[k]].kind # "FreeListElement"
  /\ \A o \in DOMAIN heap : \A k \in DOMAIN SlotsOf(heap[o]) :
       IsHeapObject(SlotsOf(heap[o])[k])
         => heap[SlotsOf(heap[o])[k]].kind # "FreeListElement"

\* C7: once a successful reload has completed PostCommit, no root and no
\* heap slot of the isolate refers to a forwarding corpse; the keys of the
\* become map are corpses and nothing points to them.
C7_ForwarderAbsence ==
  Ran("PostCommit") =>
    /\ NoForwardingCorpseReferenced
    /\ \A i \in DOMAIN before :
         /\ heap[before[i]].kind = "FreeListElement"
         /\ heap[after[i]].kind # "FreeListElement"

\* PostCommit has run after a Become that forwarded a library, a class and
\* a field.
C7_Witness ==
  /\ Ran("PostCommit")
  /\ \A kind \in {"Library", "Class", "Field"} :
       \E i \in DOMAIN before : pre.heap[before[i]].kind = kind

\* C8 as amended: a reload that is rolled back has emitted exactly one
\* service event between the entry of StartReload and the return of
\* FinishReload, an error event, and a reload that commits has emitted none:
\* FinishReload never emits the success event.
C8_OneErrorEventNoSuccessEvent ==
  /\ RolledBack =>
       /\ Len(events) = Len(pre.events) + 1
       /\ events[Len(events)].kind = "error"
       /\ events[Len(events)].error = ctx.error
  /\ Committed => events = pre.events

\* A commit has returned from FinishReload without any event.
C8_Witness ==
  /\ Committed
  /\ Len(events) = pre.finish_events

\* C8 as stated: between the start of validation and the return of
\* FinishReload exactly one event is emitted, a success event on commit and
\* an error event on rollback.
C8_AsStated ==
  pc = "Finished" =>
    /\ Len(events) = pre.finish_events + 1
    /\ Committed => events[Len(events)].kind = "success"
    /\ RolledBack => events[Len(events)].kind = "error"

IsPrefix(s, t) == Len(s) <= Len(t) /\ s = SubSeq(t, 1, Len(s))

\* The steps of FinishReload that follow validation, so far.
AfterValidation == SubSeq(phases, 4, Len(phases))

C10_RollbackLeavesCacheCleared ==
  RolledBack =>
    /\ Len(class_table) = Len(pre.class_table)
    /\ libraries = pre.libraries
    /\ root_library = pre.root_library
    /\ \A i \in DOMAIN pre.compile_time_constants :
         \A j \in DOMAIN compile_time_constants :
           compile_time_constants[j] # pre.compile_time_constants[i]

\* A rollback of a reload that started with an entry in the cache.
C10_Witness ==
  /\ RolledBack
  /\ pre.compile_time_constants # <<>>

\* C10 as stated: after a rollback the cache holds the entries it held
\* before StartReload.
C10_AsStated ==
  RolledBack => compile_time_constants = pre.compile_time_constants

\* Where a slot that held p has to point once the call has returned.
Forwarded(p) ==
  IF \E i \in DOMAIN before : before[i] = p
    THEN after[CHOOSE i \in DOMAIN before : before[i] = p]
    ELSE p

\* C6: when ElementsForwardIdentity completes, every root and every heap
\* slot that pointed to before[i] points to after[i], and every slot that
\* pointed to an object that is not an element of before points to the same
\* object.
C6_BecomeContract ==
  [][(pc = "Call" /\ pc' = "Returned") =>
       /\ RootSlots(World)' =
            [k \in DOMAIN RootSlots(World) |-> Forwarded(RootSlots(World)[k])]
       /\ \A o \in DOMAIN heap :
            heap'[o].kind # "FreeListElement" =>
              SlotsOf(heap'[o]) =
                [k \in DOMAIN SlotsOf(heap[o]) |->
                   Forwarded(SlotsOf(heap[o])[k])]]_vars

\* A completed call that forwarded class A, to which the class table, the
\* canonical type arguments and A's fields and functions referred, together
\* with a second object.
C6_Witness ==
  /\ pc = "Returned"
  /\ Len(before) = 2
  /\ \E i \in DOMAIN before :
       /\ before[i] = pre.class_table[3]
       /\ class_table[3] = after[i]
       /\ heap[before[i]].kind = "FreeListElement"

\* The function a call site refers to in the running program: the function
\* with the callee's name and static-ness in the callee's class, null if
\* the class has none.
CurrentDefinition(w, ic) ==
  IF ic.is_static_call
    THEN LookupFunction(w.heap, Owner(w.heap, ic.target),
                        w.heap[ic.target].name, w.heap[ic.target].is_static)
    ELSE LookupFunction(w.heap, ClassAt(w, ic.receiver_cid), ic.name, FALSE)

\* C11 as stated: an activation that was on the stack when a reload
\* committed finishes with the code it was entered with, and the call it
\* makes after the reload dispatches to the definition the callee has in
\* the reloaded program; an invocation started after the reload runs the
\* body of the reloaded program.
C11_AsStated ==
  [][(Len(returns') > Len(returns) /\ Running # InitialScript.tag) =>
       LET r == returns'[Len(returns')]
       IN IF r.fresh THEN r.code = Running
          ELSE /\ r.code = InitialScript.tag
               /\ CurrentDefinition(World, stack[Len(stack)].ic) # Null
                    => r.called = CurrentDefinition(World,
                                                    stack[Len(stack)].ic)]_vars

\* The class-table slots that, when StartReload is entered, hold a class
\* the running program does not declare: the retained entries of classes
\* an earlier reload dropped.
RetainedSlots ==
  {c \in OldSlots :
     pre.heap[pre.class_table[c]].script \notin {CoreScript, pre.running}}

\* C12: after a successful reload a class that has no declaration in the
\* new source keeps its class-table entry and its cid; a class that an
\* earlier reload dropped and this reload declares again is mapped to the
\* retained entry: the new class is the only entry for it, sits in the
\* retained slot with the retained cid, and the instances with that cid
\* keep it.
C12_DroppedClassReintroduced ==
  Committed =>
    \A c \in OldSlots :
      LET old == pre.class_table[c]
      IN /\ ReplacementsOf(old) = {} =>
              /\ class_table[c] = old
              /\ heap[old].kind = "Class"
              /\ heap[old].id = c - 1
         /\ (c \in RetainedSlots /\ ReplacementsOf(old) # {}) =>
              /\ class_table[c] \in ReplacementsOf(old)
              /\ heap[class_table[c]].id = c - 1
              /\ \A d \in DOMAIN class_table :
                   class_table[d] \in ReplacementsOf(old) => d = c
              /\ \A o \in DOMAIN pre.heap :
                   (pre.heap[o].kind = "Instance" /\ pre.heap[o].cid = c - 1)
                     => (heap[o].kind = "Instance" /\ heap[o].cid = c - 1)

\* The second of two committed reloads declares again the class B that the
\* first one dropped, with an instance of B on the heap that was allocated
\* before the first reload loaded its classes.
C12_Witness ==
  /\ Committed
  /\ pre.running # InitialScript.tag
  /\ \E c \in RetainedSlots :
       /\ ReplacementsOf(pre.class_table[c]) # {}
       /\ \E o \in DOMAIN pre.heap :
            /\ pre.heap[o].kind = "Instance"
            /\ pre.heap[o].cid = c - 1
            /\ heap[o].cid = c - 1
            /\ \E x \in DOMAIN pre.heap :
                 /\ x > o
                 /\ pre.heap[x].kind = "Class"
                 /\ pre.heap[x].script = pre.running

\* The script with this tag.
ScriptOf(tag) == CHOOSE script \in ReloadScripts : script.tag = tag

\* The dart_scheme libraries of the pre-reload list, in its order.
PreservedLibraries ==
  LET kept == SelectIdx(pre.libraries,
                        {l \in DOMAIN pre.heap :
                           pre.heap[l].kind = "Library"
                           /\ pre.heap[l].is_dart_scheme}, 1)
  IN [k \in 1..Len(kept) |-> pre.libraries[kept[k]]]

\* The library objects the loader has created in the current reload, in
\* the order of their creation.
LoadedLibraries ==
  LET all == [o \in 1..Len(heap) |-> o]
      made == SelectIdx(all,
                        {o \in (Len(pre.heap) + 1)..Len(heap) :
                           heap[o].kind = "Library"}, 1)
  IN [k \in 1..Len(made) |-> made[k]]

\* C13: after a successful reload the libraries list is the dart_scheme
\* libraries Checkpoint preserved followed by exactly the libraries the
\* loader loaded, one per library of the script and in the script's order;
\* a pre-reload library that is not dart_scheme and whose URL the script
\* does not contain has no entry in the list.
C13_LibrariesAfterCommit ==
  Committed =>
    LET script == ScriptOf(pre.loading)
    IN /\ libraries = PreservedLibraries \o LoadedLibraries
       /\ Len(LoadedLibraries) = Len(script.libs)
       /\ \A k \in DOMAIN LoadedLibraries :
            heap[LoadedLibraries[k]].url = script.libs[k].url
       /\ \A i \in DOMAIN pre.libraries :
            LET lib == pre.heap[pre.libraries[i]]
            IN (~lib.is_dart_scheme
                /\ \A k \in DOMAIN script.libs : script.libs[k].url # lib.url)
                 => \A j \in DOMAIN libraries :
                      heap[libraries[j]].url # lib.url

\* A committed reload that removed lib2, which an earlier reload had added,
\* and loaded app again.
C13_Witness ==
  /\ Committed
  /\ \E i \in DOMAIN pre.libraries : pre.heap[pre.libraries[i]].url = "lib2"
  /\ \A j \in DOMAIN libraries : heap[libraries[j]].url # "lib2"
  /\ \E j \in DOMAIN libraries :
       /\ libraries[j] > Len(pre.heap)
       /\ heap[libraries[j]].url = "app"

\* The pre-reload libraries that have the URL of library object lib.
CounterpartsOf(lib) ==
  {pre.libraries[i] : i \in
     {i \in DOMAIN pre.libraries :
        pre.heap[pre.libraries[i]].url = heap[lib].url}}

\* C14: after a successful reload every library the loader loaded has the
\* debuggable flag that the pre-reload library with the same URL had before
\* the reload, and a loaded library whose URL no pre-reload library had has
\* the flag it was loaded with (a library is created debuggable).
C14_DebuggableCarriedOver ==
  Committed =>
    \A k \in DOMAIN LoadedLibraries :
      LET lib == LoadedLibraries[k]
      IN /\ \A old \in CounterpartsOf(lib) :
              heap[lib].debuggable = pre.heap[old].debuggable
         /\ CounterpartsOf(lib) = {} => heap[lib].debuggable

\* A commit that replaced a library the embedder had made not debuggable
\* and that added a library with a new URL.
C14_Witness ==
  /\ Committed
  /\ \E k \in DOMAIN LoadedLibraries :
       /\ CounterpartsOf(LoadedLibraries[k]) # {}
       /\ \A old \in CounterpartsOf(LoadedLibraries[k]) :
            ~pre.heap[old].debuggable
       /\ ~heap[LoadedLibraries[k]].debuggable
  /\ \E k \in DOMAIN LoadedLibraries :
       /\ CounterpartsOf(LoadedLibraries[k]) = {}
       /\ heap[LoadedLibraries[k]].debuggable

\* The classes of the pre-reload class table that the current reload
\* replaced.
ReplacedClasses ==
  {pre.class_table[c] : c \in {c \in OldSlots :
                                 ReplacementsOf(pre.class_table[c]) # {}}}

\* The functions and fields that belonged to class object cls before the
\* reload.
MembersOf(cls) ==
  {pre.heap[cls].functions[i] : i \in DOMAIN pre.heap[cls].functions}
  \cup {pre.heap[cls].fields[i] : i \in DOMAIN pre.heap[cls].fields}

\* Member m is owned by a patch class that holds the script of old class
\* cls and a patched class out of the set classes.
OwnedByPatchOf(m, cls, classes) ==
  /\ heap[m].kind \in {"Function", "Field"}
  /\ heap[heap[m].owner].kind = "PatchClass"
  /\ heap[heap[m].owner].script = pre.heap[cls].script
  /\ heap[heap[m].owner].patched_class \in classes

\* Member m of old class cls is a static field and the replacement of cls
\* has a static field of the same name.
HasStaticCounterpart(m, cls) ==
  /\ pre.heap[m].kind = "Field"
  /\ pre.heap[m].is_static
  /\ \E n \in ReplacementsOf(cls) : \E i \in DOMAIN heap[n].fields :
       /\ heap[heap[n].fields[i]].is_static
       /\ heap[heap[n].fields[i]].name = pre.heap[m].name

AbortReloadCalled ==
  /\ pc \in {"AbortReturned", "Aborted"}
  /\ phases # <<>>
  /\ phases[Len(phases)] = "AbortReload"

\* C16 as the specification states it: whatever the state AbortReload(e) is
\* called in, once it has returned e is the context's error and the class
\* count, the libraries list, the index of every listed library and the
\* root library are what they were before the reload.
C16_AsStated ==
  AbortReloadCalled =>
    /\ fatal = ""
    /\ ctx.has_error
    /\ ctx.error \in AbortErrors
    /\ Len(class_table) = Len(pre.class_table)
    /\ libraries = pre.libraries
    /\ \A i \in DOMAIN libraries :
         heap[libraries[i]].kind = "Library"
         /\ heap[libraries[i]].index = pre.heap[libraries[i]].index
    /\ root_library = pre.root_library

\* An error has been reported to the reload context that exists now: the
\* events sent since its reload began are its error events.
ErrorReported == pc # "Idle" /\ Len(events) > Len(pre.events)

\* The first error reported to the context.
FirstError == events[Len(pre.events) + 1].error

\* C20 as the specification states it: once an error has been reported to a
\* reload context, has_error() is true and error() returns the first error
\* reported for as long as the context exists, also after further calls of
\* ReportError.
C20_AsStated ==
  ErrorReported => ctx.has_error /\ ctx.error = FirstError

\* The positions of FinishReload at which a mapping, validation, commit or
\* rollback step is due.
FinishReloadSteps ==
  {"BuildMappings", "ValidateReload", "PostCommit", "Rollback"}
  \cup CommitPhases

\* The step installs optimized code for a function: a step of the
\* background compiler.
BackgroundCompilation ==
  \E function \in DOMAIN heap \cap DOMAIN heap' :
    /\ heap[function].kind = "Function"
    /\ heap'[function].kind = "Function"
    /\ ~heap[function].has_optimized_code
    /\ heap'[function].has_optimized_code

\* C17: every mapping, validation, commit and rollback step of FinishReload
\* starts and ends with the background compiler disabled, the compiler is
\* re-enabled only by the step that follows the last of them (after
\* PostCommit on the commit path, after Rollback on the rollback path), and
\* no step of the background compiler is taken from the first of them to
\* the re-enabling.
C17_BackgroundCompilerDisabled ==
  [][/\ (pc \in FinishReloadSteps)
          => (~background_compiler /\ ~background_compiler')
     /\ (~background_compiler /\ background_compiler')
          => (/\ pc = "Enable"
              /\ pc' = "Finished"
              /\ Ran("PostCommit") \/ Ran("Rollback"))
     /\ BackgroundCompilation
          => (pc \notin FinishReloadSteps \cup {"Enable"})]_vars

\* The background compiler has optimized the function of an activation that
\* runs unoptimized code, and a reload has then gone through FinishReload on
\* the commit path, which made the function give up the optimized code.
C17_Witness ==
  /\ pc = "Finished"
  /\ Ran("PostCommit")
  /\ background_compiler
  /\ stack # <<>>
  /\ ~stack[1].optimized
  /\ \E function \in DOMAIN pre.heap :
       /\ pre.heap[function].kind = "Function"
       /\ pre.heap[function].has_optimized_code
       /\ ~heap[function].has_optimized_code

\* The capacity of a table: its length without the slot of the used count.
Capacity(table) == Len(table) - 1

IsPowerOfTwo(n) == \E k \in 0..n : 2^k = n

RECURSIVE FoundByProbing(_, _, _, _)
\* A lookup of element in table: linear probing from index, at most steps
\* slots, finds an equal element before it reaches an empty slot.
FoundByProbing(table, element, index, steps) ==
  IF steps = 0 \/ table[index + 1] = Null THEN FALSE
  ELSE IF Equals(heap, table[index + 1], element) THEN TRUE
  ELSE FoundByProbing(table, element, (index + 1) % Capacity(table),
                      steps - 1)

OldShape == pre.heap[pre.class_table[Len(pre.class_table) - 1]]
NewShape == pre.heap[pre.class_table[Len(pre.class_table)]]
OldMap ==
  OffsetToFieldMap(pre.heap, pre.class_table[Len(pre.class_table) - 1])
NewMap == OffsetToFieldMap(pre.heap, pre.class_table[Len(pre.class_table)])

\* The two maps have a field of the same name at offset i.
SameFieldAt(i) ==
  /\ OldMap[i] # Null
  /\ NewMap[i] # Null
  /\ pre.heap[OldMap[i]].name = pre.heap[NewMap[i]].name

\* Conditions (a), (b) and (c) of the specification; present gives the
\* offsets "where a field is present".
StatedCondition(present) ==
  /\ OldShape.state = "finalized" =>
       /\ NewShape.state # "malformed"
       /\ Len(OldMap) = Len(NewMap)
       /\ \A i \in present \cap DOMAIN OldMap \cap DOMAIN NewMap :
            SameFieldAt(i)
  /\ OldShape.state = "prefinalized" =>
       /\ NewShape.state = "prefinalized"
       /\ OldShape.instance_size = NewShape.instance_size
  /\ OldShape.num_native_fields = NewShape.num_native_fields

\* The offsets where the old map has a field, and those where either map
\* has one.
PresentInOld == {i \in DOMAIN OldMap : OldMap[i] # Null}
PresentInEither ==
  PresentInOld \cup {i \in DOMAIN NewMap : NewMap[i] # Null}

\* C19 as the specification states it: CanReload returns, and it returns
\* true exactly when (a) for a finalized old class the replacement
\* finalizes without error and the two offset-to-field maps have the same
\* length and the same field name at every offset where a field is present
\* (in the old map, or in either map), (b) for a prefinalized old class the
\* replacement is prefinalized with the same instance size, (c) the
\* native-field counts are equal.
C19_AsStated ==
  Ran("CanReload") =>
    /\ fatal = ""
    /\ \/ (pc = "CanReloadTrue") = StatedCondition(PresentInOld)
       \/ (pc = "CanReloadTrue") = StatedCondition(PresentInEither)

\* C21 as the specification states it: IsSameClass(a, b) returns true
\* exactly when the names of a and b are equal, the URLs of their libraries
\* are equal, no library counting as a null URL, and a and b are both patch
\* classes or both not.
C21_AsStated ==
  Ran("IsSameClass") =>
    LET a == heap[Len(heap) - 1]
        b == heap[Len(heap)]
    IN (pc = "IsSameClassTrue")
         = (/\ a.name = b.name
            /\ UrlOf(heap, a.library) = UrlOf(heap, b.library)
            /\ a.is_patch = b.is_patch)

\* C22: right after Checkpoint the libraries list is the dart_scheme
\* libraries of the original list in their original relative order, each
\* with its position in that list as its index; every other library of the
\* original list has the index -1; the root library is null; the context
\* holds the original list, the original root library and the original
\* number of class ids.
C22_CheckpointState ==
  pc = "CheckpointReturned" =>
    /\ libraries = PreservedLibraries
    /\ \A i \in DOMAIN libraries : heap[libraries[i]].index = i - 1
    /\ \A i \in DOMAIN pre.libraries :
         ~pre.heap[pre.libraries[i]].is_dart_scheme
           => heap[pre.libraries[i]].index = -1
    /\ root_library = Null
    /\ ctx.saved_libraries = pre.libraries
    /\ ctx.saved_root_library = pre.root_library
    /\ ctx.saved_num_cids = Len(pre.class_table)

\* A dart_scheme library was registered after a library that is not.
C22_Witness ==
  /\ pc = "CheckpointReturned"
  /\ Len(libraries) = 2
  /\ \E i, j \in DOMAIN pre.libraries :
       /\ i < j
       /\ ~pre.heap[pre.libraries[i]].is_dart_scheme
       /\ pre.libraries[j] = libraries[1]
       /\ pre.heap[libraries[1]].index # heap[libraries[1]].index
  /\ pre.root_library # Null

\* C23: Checkpoint followed, after any activity of the loader, by Rollback
\* gives every library of the list of before the reload its index back,
\* and the isolate that list and its root library; the class table has the
\* number of classes it had before the reload; the context holds no saved
\* list and no saved root library any more.
C23_RollbackRestores ==
  pc = "RollbackReturned" =>
    /\ libraries = pre.libraries
    /\ \A i \in DOMAIN pre.libraries :
         heap[pre.libraries[i]].index = pre.heap[pre.libraries[i]].index
    /\ root_library = pre.root_library
    /\ Len(class_table) = Len(pre.class_table)
    /\ ctx.saved_libraries = <<>>
    /\ ctx.saved_root_library = Null

\* The loader had registered classes and a library, and Checkpoint had
\* changed the index of a library it kept.
C23_Witness ==
  /\ pc = "RollbackReturned"
  /\ Ran("Load")
  /\ Cardinality({o \in DOMAIN heap : heap[o].kind = "Class"})
       > Cardinality({o \in DOMAIN pre.heap : pre.heap[o].kind = "Class"})
  /\ Cardinality({o \in DOMAIN heap : heap[o].kind = "Library"})
       > Len(pre.libraries)
  /\ \E i, j \in DOMAIN pre.libraries :
       /\ i < j
       /\ ~pre.heap[pre.libraries[i]].is_dart_scheme
       /\ pre.heap[pre.libraries[j]].is_dart_scheme

\* No reload is in progress: none has started, or FinishReload has
\* returned.
NoReloadInProgress == pc \in {"Idle", "Finished"}

\* C24: whenever no reload is in progress, every library of the libraries
\* list has its position in the list as its index.
C24_IndexIsPosition ==
  NoReloadInProgress =>
    \A i \in DOMAIN libraries : heap[libraries[i]].index = i - 1

\* A reload that was rolled back has returned after an earlier one was
\* committed.
C24_Witness ==
  /\ pc = "Finished"
  /\ RolledBack
  /\ reloads = 2
  /\ libraries # InitialWorld.libraries
  /\ \E i \in DOMAIN libraries : ~heap[libraries[i]].is_dart_scheme
  /\ \E o \in DOMAIN heap :
       /\ heap[o].kind = "Library"
       /\ heap[o].index >= Len(libraries)

\* Commit has returned and the reload context is still there.
AfterCommit ==
  /\ pc \in {"PostCommit", "Enable", "Finished"}
  /\ Ran("RehashCanonicalTypeArguments")

\* The libraries of the list of before the reload that the reload removed:
\* Checkpoint cleared their index and no loaded library replaced them.
RemovedLibraries ==
  {l \in {pre.libraries[i] : i \in DOMAIN pre.libraries} :
     heap[l].kind = "Library" /\ heap[l].index = -1}

\* C25: after Commit, IsDirty is true of every library the reload loaded
\* and of every library of before the reload that it removed, and false of
\* every dart_scheme library Checkpoint preserved; a library of the list is
\* dirty exactly when its index is at least the number of libraries
\* Checkpoint kept.
C25_DirtyLibraries ==
  AfterCommit =>
    /\ \A k \in DOMAIN LoadedLibraries : IsDirty(World, LoadedLibraries[k])
    /\ \A l \in RemovedLibraries : IsDirty(World, l)
    /\ \A k \in DOMAIN PreservedLibraries :
         ~IsDirty(World, PreservedLibraries[k])
    /\ \A i \in DOMAIN libraries :
         IsDirty(World, libraries[i])
           = (heap[libraries[i]].index >= Len(PreservedLibraries))

\* The second reload is committed; it removed a library the first had
\* added.
C25_Witness ==
  /\ AfterCommit
  /\ pc = "Finished"
  /\ RemovedLibraries # {}
  /\ Len(LoadedLibraries) >= 1
  /\ Len(PreservedLibraries) >= 1

\* The Function objects of the heap.
Functions == {o \in DOMAIN heap : heap[o].kind = "Function"}

\* PostCommit has returned and the reload context is still there.
AfterPostCommit == pc \in {"Enable", "Finished"} /\ Ran("PostCommit")

\* C26 as stated: after PostCommit every Function of the heap has its
\* usage, deoptimization and edge counters at zero; a function of a dirty
\* library has no compiled code and no ICData array; a function of a clean
\* library has the unoptimized code it had; whatever code the function had
\* before the reload.
C26_AsStated ==
  AfterPostCommit =>
    \A o \in Functions :
      /\ heap[o].usage_counter = 0
      /\ heap[o].deoptimization_counter = 0
      /\ heap[o].edge_counters = 0
      /\ ~heap[o].has_optimized_code
      /\ IF IsFromDirtyLibrary(World, o)
           THEN heap[o].code = Null /\ ~heap[o].ic_data_array
           ELSE o \in DOMAIN pre.heap => heap[o].code = pre.heap[o].code

\* C27 as stated: once PostCommit has reset the ICs of the frames on the
\* stack, the ICData of the call site of every frame holds no check if it is
\* an instance call, and if it is an unoptimized static call it targets the
\* function that the lookup of the old target's name in the old target's
\* owner finds after the reload; none keeps the target it had before the
\* reload.
C27_AsStated ==
  [][(pc = "PostCommit" /\ pc' = "Enable") =>
       \A i \in DOMAIN stack :
         LET old == stack[i].ic
             new == stack'[i].ic
         IN IF old.is_static_call
              THEN new.target =
                     LookupStaticFunction(heap', Owner(heap', old.target),
                                          heap'[old.target].name)
              ELSE new.target = Null]_vars

\* The statements of PostCommit in the order of the statement.
InvalidationOrder ==
  <<"ReleaseSaved", "ResetMegamorphicCaches", "DeoptimizeFunctionsOnStack",
    "NoSafepointScope", "HeapIterationScope", "ResetUnoptimizedICsOnStack",
    "MarkAllFunctionsForRecompilation", "~HeapIterationScope",
    "~NoSafepointScope", "PostCommit">>

\* What PostCommit has done so far in the current reload.
InvalidationLog ==
  LET done == SelectIdx(phases,
                        {InvalidationOrder[i] : i \in DOMAIN InvalidationOrder},
                        1)
  IN [k \in 1..Len(done) |-> phases[done[k]]]

\* C28: PostCommit releases the saved libraries list and the saved root
\* library, then clears the megamorphic cache table, then deoptimizes the
\* optimized frames of the stack, then resets the ICs of the frames of the
\* stack, then marks all functions for recompilation; the last two are done
\* inside one no-safepoint scope and one heap-iteration scope.
C28_InvalidationOrder ==
  /\ Len(InvalidationLog) <= Len(InvalidationOrder)
  /\ InvalidationLog = SubSeq(InvalidationOrder, 1, Len(InvalidationLog))
  /\ pc = "ResetMegamorphicCaches" =>
       /\ ctx.saved_libraries = <<>>
       /\ ctx.saved_root_library = Null
       /\ megamorphic_cache_table = pre.megamorphic_cache_table
  /\ pc = "DeoptimizeFunctionsOnStack" => megamorphic_cache_table = <<>>
  /\ pc = "ResetUnoptimizedICsOnStack" =>
       \A i \in DOMAIN stack : stack[i].optimized => stack[i].deopt
  /\ pc = "MarkAllFunctionsForRecompilation" =>
       \A i \in DOMAIN stack :
         ~stack[i].ic.is_static_call => stack[i].ic.target = Null
  /\ AfterPostCommit =>
       \A o \in Functions : ~heap[o].has_optimized_code

\* PostCommit has returned from a reload with an optimized frame on the
\* stack and a megamorphic cache in the table.
C28_Witness ==
  /\ AfterPostCommit
  /\ InvalidationLog = InvalidationOrder
  /\ pre.megamorphic_cache_table # <<>>
  /\ megamorphic_cache_table = <<>>
  /\ \E i \in DOMAIN stack : stack[i].optimized /\ stack[i].deopt
  /\ \E o \in Functions :
       o \in DOMAIN pre.heap /\ pre.heap[o].has_optimized_code

\* The classes the reload has added, in the order of the class table
\* CompactClassTable was called with: the classes mapped to themselves,
\* which are the loaded classes that ReplaceClasses has not put in the slot
\* of a class of before the reload.
BrandNewClasses ==
  LET n == ctx.saved_num_cids
      replacing == {pre.class_table[c] : c \in 1..n}
      self == {pre.class_table[c] : c \in (n + 1)..Len(pre.class_table)}
                \ replacing
      at == SelectIdx(pre.class_table, self, n + 1)
  IN [k \in 1..Len(at) |-> pre.class_table[at[k]]]

\* C29: after CompactClassTable the class table has the class ids of
\* before the reload and one more for every class that is new; the new
\* classes have the class ids from the count of before the reload upward
\* without a gap, in the order they had before the compaction, each with
\* its slot as its id; no slot below the count of before the reload has
\* changed.
C29_CompactedTable ==
  pc = "CompactClassTableReturned" =>
    LET n == ctx.saved_num_cids
    IN /\ NumCids(World) = n + Len(BrandNewClasses)
       /\ \A k \in DOMAIN BrandNewClasses :
            /\ ClassAt(World, n + k - 1) = BrandNewClasses[k]
            /\ heap[BrandNewClasses[k]].id = n + k - 1
       /\ \A c \in 1..n : class_table[c] = pre.class_table[c]

\* Two new classes came after two classes that replace old ones.
C29_Witness ==
  /\ pc = "CompactClassTableReturned"
  /\ Len(BrandNewClasses) = 2
  /\ Len(pre.class_table) = ctx.saved_num_cids + 4
  /\ class_table[ctx.saved_num_cids + 1]
       = pre.class_table[ctx.saved_num_cids + 3]
  /\ class_table[ctx.saved_num_cids + 2]
       = pre.class_table[ctx.saved_num_cids + 4]

\* The class ids the loader has handed out since Checkpoint that hold a
\* class, and the class ids of before the reload that hold one.
LoadedCids ==
  {c \in ctx.saved_num_cids..(NumCids(World) - 1) : HasValidClassAt(World, c)}

SavedCids == {c \in 0..(ctx.saved_num_cids - 1) : HasValidClassAt(World, c)}

\* C30: BuildClassMapping makes exactly one entry of the class map for
\* every valid entry of the class table whose class id is at or above the
\* count of before the reload; the entry maps the class to the class of
\* before the reload that is the same class under IsSameClass if there is
\* one, and to itself otherwise; no class with a class id below that count
\* is a key.
C30_ClassMapping ==
  pc \in {"BuildClassMappingReturned", "ValidateReload"} =>
    LET keys == {ctx.class_map[i].key : i \in DOMAIN ctx.class_map}
    IN /\ Len(ctx.class_map) = Cardinality(LoadedCids)
       /\ keys = {ClassAt(World, c) : c \in LoadedCids}
       /\ \A i \in DOMAIN ctx.class_map :
            LET key == ctx.class_map[i].key
                same == {ClassAt(World, c) :
                           c \in {d \in SavedCids :
                                   IsSameClass(heap, key, ClassAt(World, d))}}
            IN IF same = {} THEN ctx.class_map[i].value = key
               ELSE ctx.class_map[i].value \in same
       /\ \A c \in SavedCids : ClassAt(World, c) \notin keys

\* Four classes were loaded, two of them the same as a class of before the
\* reload, two of them new.
C30_Witness ==
  /\ pc = "BuildClassMappingReturned"
  /\ Len(ctx.class_map) = 4
  /\ Cardinality({i \in DOMAIN ctx.class_map :
                    ctx.class_map[i].key = ctx.class_map[i].value}) = 2
  /\ ctx.class_map[1].key = ctx.class_map[1].value
  /\ ctx.class_map[4].key # ctx.class_map[4].value

\* The entries of a map whose key and value differ: the replaced libraries
\* in the library map, the replaced classes in the class map.
Replacing(map) == {i \in DOMAIN map : map[i].key # map[i].value}

\* The pairs CopyStaticFieldValues hands to AddStaticFieldMapping.
StaticFieldPairs ==
  {<<old_field, field>> \in (DOMAIN heap) \X (DOMAIN heap) :
     \E i \in Replacing(ctx.class_map) :
       LET field_list == heap[ctx.class_map[i].key].fields
           old_field_list == heap[ctx.class_map[i].value].fields
       IN /\ \E k \in DOMAIN field_list : field_list[k] = field
          /\ \E k \in DOMAIN old_field_list : old_field_list[k] = old_field
          /\ heap[field].is_static
          /\ heap[field].name = heap[old_field].name}

ReloadableListed ==
  {libraries[i] : i \in {j \in DOMAIN libraries :
                           ~heap[libraries[j]].is_dart_scheme}}

DartSchemeListed ==
  {libraries[i] : i \in {j \in DOMAIN libraries :
                           heap[libraries[j]].is_dart_scheme}}

SavedWithUrlOf(lib) ==
  {ctx.saved_libraries[i] :
     i \in {j \in DOMAIN ctx.saved_libraries :
              heap[ctx.saved_libraries[j]].url = heap[lib].url}}

\* C32: BuildLibraryMapping makes one entry of the library map for every
\* library of the list that is not a dart_scheme library; the entry maps
\* the library to the saved library with the same URL if there is one and
\* to itself otherwise.  The become map has exactly one entry old -> new
\* for every matched pair, old and new being different objects.  A
\* dart_scheme library is in neither map.
C32_LibraryMapping ==
  pc = "ValidateReload" =>
    LET lmap == ctx.library_map
        bmap == ctx.become_map
    IN /\ Len(lmap) = Cardinality(ReloadableListed)
       /\ {lmap[i].key : i \in DOMAIN lmap} = ReloadableListed
       /\ \A i \in DOMAIN lmap :
            IF SavedWithUrlOf(lmap[i].key) = {}
              THEN lmap[i].value = lmap[i].key
              ELSE /\ lmap[i].value \in SavedWithUrlOf(lmap[i].key)
                   /\ lmap[i].value # lmap[i].key
                   /\ Cardinality({j \in DOMAIN bmap :
                                     bmap[j].key = lmap[i].value}) = 1
                   /\ \E j \in DOMAIN bmap :
                        /\ bmap[j].key = lmap[i].value
                        /\ bmap[j].value = lmap[i].key
       /\ Len(bmap) = Cardinality(Replacing(lmap))
       /\ \A lib \in DartSchemeListed :
            /\ \A i \in DOMAIN lmap : lib \notin {lmap[i].key, lmap[i].value}
            /\ \A j \in DOMAIN bmap : lib \notin {bmap[j].key, bmap[j].value}

\* Two libraries were loaded next to dart:core, one with the URL of a saved
\* library and one with a new URL.
C32_Witness ==
  /\ pc = "ValidateReload"
  /\ DartSchemeListed # {}
  /\ Len(ctx.library_map) = 2
  /\ Cardinality(Replacing(ctx.library_map)) = 1
  /\ \E i \in DOMAIN ctx.library_map :
       /\ ctx.library_map[i].key = ctx.library_map[i].value
       /\ SavedWithUrlOf(ctx.library_map[i].key) = {}

\* C33 as stated: ElementsForwardIdentity does not complete on an input in
\* which some after[i] is also an element of before, at an earlier or at a
\* later position, so that once it has completed no root and no slot of a
\* live heap object refers to a forwarding corpse.
C33_AsStated ==
  pc = "Returned" =>
    /\ \A i, j \in DOMAIN before : after[i] # before[j]
    /\ NoForwardingCorpseReferenced

---------------------------------------------------------------------------
(* Become::ElementsForwardIdentity as a debug build and as a release build *)
(* run it, on arrays of any two lengths                                     *)

\* A build and what it does where the code leaves it open: a debug build
\* checks the ASSERTs and runs the DEBUG-only visitors; a release build
\* that reads after.At(i) past the end of the array faults, or gets the
\* object garbage.
BecomeBuilds ==
  [debug : BOOLEAN, fault : BOOLEAN, garbage : AfterCandidates]

\* NoFreeListTargetsVisitor over the isolate and the heap, the two arrays
\* being heap objects: no visited slot refers to a free-list element.
NoFreeListTargets(w, before_arr, after_arr) ==
  LET roots == RootSlots(w) \o before_arr \o after_arr
  IN /\ \A k \in DOMAIN roots :
          IsHeapObject(roots[k]) => ~IsFreeListElement(w.heap, roots[k])
     /\ \A o \in DOMAIN w.heap : \A k \in DOMAIN SlotsOf(w.heap[o]) :
          IsHeapObject(SlotsOf(w.heap[o])[k])
            => ~IsFreeListElement(w.heap, SlotsOf(w.heap[o])[k])

\* The whole of ElementsForwardIdentity.  The loop runs over the length of
\* before; the sweep forwards the two arrays with the rest of the heap.
ElementsForwardIdentityBy(build, w, before_arr, after_arr) ==
  LET Stop(v, msg) == [v EXCEPT !.fatal = msg]
      read == [i \in DOMAIN before_arr |->
                 IF i <= Len(after_arr) THEN after_arr[i] ELSE build.garbage]
      r == SetupForwarding(w.heap, before_arr, read, 1)
      swept == FollowForwardingPointers([w EXCEPT !.heap = r.heap])
      before_swept == ForwardPointers(r.heap, before_arr)
      after_swept == ForwardPointers(r.heap, after_arr)
  IN IF build.debug /\ ~NoFreeListTargets(w, before_arr, after_arr)
       THEN Stop(w, "ASSERT: !target->IsFreeListElement()")
     ELSE IF build.debug /\ Len(before_arr) # Len(after_arr)
       THEN Stop(w, "ASSERT: before.Length() == after.Length()")
     ELSE IF Len(before_arr) > Len(after_arr) /\ build.fault
       THEN Stop(w, "segmentation fault")
     ELSE IF r.fatal # "" THEN Stop(w, r.fatal)
     ELSE IF build.debug /\ before_swept # after_swept
       THEN Stop(swept, "ASSERT: before.At(i) == after.At(i)")
     ELSE IF build.debug
             /\ ~NoFreeListTargets(swept, before_swept, after_swept)
       THEN Stop(swept, "ASSERT: !target->IsFreeListElement()")
     ELSE swept

InitBecomeBuilds ==
  /\ heap = BecomeWorld.heap
  /\ class_table = BecomeWorld.class_table
  /\ libraries = BecomeWorld.libraries
  /\ root_library = BecomeWorld.root_library
  /\ compile_time_constants = BecomeWorld.compile_time_constants
  /\ canonical_type_arguments = BecomeWorld.canonical_type_arguments
  /\ megamorphic_cache_table = BecomeWorld.megamorphic_cache_table
  /\ defer_finalization_count = 0
  /\ start_reload = NoActivation
  /\ ctx = NewContext
  /\ events = <<>>
  /\ fatal = ""
  /\ stack = <<>>
  /\ returns = <<>>
  /\ background_compiler = TRUE
  /\ pc = "Call"
  /\ phases = <<>>
  /\ pre = Snapshot(BecomeWorld)
  /\ reloads = 0
  /\ \E n, m \in 1..MaxBecomeLength :
       /\ before \in [1..n -> BeforeCandidates]
       /\ after \in [1..m -> AfterCandidates]

BecomeCallBy ==
  /\ pc = "Call"
  /\ \E build \in BecomeBuilds :
       LET w == ElementsForwardIdentityBy(build, World, before, after)
       IN /\ Install(w)
          /\ pc' = IF w.fatal = "" THEN "Returned" ELSE "Aborted"
  /\ UNCHANGED <<background_compiler, phases, pre, reloads, before, after>>

NextBecomeBuilds == BecomeCallBy

SpecBecomeBuilds == InitBecomeBuilds /\ [][NextBecomeBuilds]_vars

\* The inputs ElementsForwardIdentity is to refuse: arrays of two lengths, a
\* pair of one object, an immediate or a VM-heap object in before, an
\* object twice in before, an old-space object paired with a new-space one.
Refused ==
  \/ Len(before) # Len(after)
  \/ \E i \in DOMAIN before :
       \/ i \in DOMAIN after /\ before[i] = after[i]
       \/ ~IsHeapObject(before[i])
       \/ IsHeapObject(before[i]) /\ heap[before[i]].vm
       \/ \E j \in DOMAIN before : j # i /\ before[j] = before[i]
       \/ /\ i \in DOMAIN after
          /\ IsHeapObject(before[i])
          /\ heap[before[i]].old /\ ~heap[after[i]].old

\* C34 as stated: on every refused input the call ends in a fatal error,
\* and no root and no slot of a heap object has been redirected by then.
C34_AsStated ==
  [][(pc = "Call" /\ Refused) =>
       /\ pc' = "Aborted"
       /\ RootSlots(World)' = RootSlots(World)
       /\ \A o \in DOMAIN heap :
            heap'[o].kind # "FreeListElement"
              => SlotsOf(heap'[o]) = SlotsOf(heap[o])]_vars

\* The current reload is one whose loader returned an error, and it is not
\* over yet.
LoaderFailed ==
  /\ pc \in {"Checkpointed", "BuildMappings", "ValidateReload", "Rollback",
             "Enable", "Finished"}
  /\ ScriptOf(pre.loading).error # ""

\* The libraries of the pre-reload list that are not dart_scheme libraries.
ReloadableBefore ==
  {pre.libraries[i] : i \in {j \in DOMAIN pre.libraries :
                               ~pre.heap[pre.libraries[j]].is_dart_scheme}}

\* C35: when the loader returns an error StartReload records it and rolls
\* nothing back: until FinishReload rolls back, the context has the error,
\* the libraries list holds none of the reloadable libraries of before the
\* reload, the root library is not the one of before the reload and the
\* checkpoint is still held; FinishReload then takes the rollback path, and
\* no class-table entry below the pre-reload count changes at any point.
C35_LoaderError ==
  LoaderFailed =>
    /\ ctx.has_error
    /\ ctx.error = ScriptOf(pre.loading).error
    /\ \A p \in CommitPhases \cup {"PostCommit"} : ~Ran(p)
    /\ \A c \in DOMAIN pre.class_table :
         c \in DOMAIN class_table /\ class_table[c] = pre.class_table[c]
    /\ pc \in {"Checkpointed", "BuildMappings", "ValidateReload",
               "Rollback"} =>
         /\ \A i \in DOMAIN libraries : libraries[i] \notin ReloadableBefore
         /\ root_library # pre.root_library
         /\ ctx.saved_libraries = pre.libraries
         /\ ctx.saved_root_library = pre.root_library
         /\ ctx.saved_num_cids = Len(pre.class_table)
    /\ pc \in {"Enable", "Finished"} =>
         /\ Ran("Rollback")
         /\ libraries = pre.libraries
         /\ root_library = pre.root_library
         /\ class_table = pre.class_table

\* The loader has failed after it registered a library, FinishReload has
\* not been called and the isolate is still checkpointed.
C35_Witness ==
  /\ LoaderFailed
  /\ pc = "Checkpointed"
  /\ ctx.has_error
  /\ Len(libraries) > Len(PreservedLibraries)
  /\ ReloadableBefore # {}

\* StartReload is at the call of the library tag handler or has the call
\* behind it and has not unblocked yet.
InTagHandler == pc \in {"library_tag_handler", "UnblockClassFinalization"}

\* What holds while StartReload runs and when it has returned.
StartReloadStates ==
  /\ InTagHandler <=> defer_finalization_count > 0
  /\ defer_finalization_count \in {0, 1}
  /\ InTagHandler =>
       /\ \A i \in DOMAIN stack : heap[stack[i].function].code # Null
       /\ ctx.saved_num_cids = Len(pre.class_table)
       /\ ctx.saved_libraries = pre.libraries
       /\ ctx.saved_root_library = pre.root_library
       /\ start_reload.root_lib_url = pre.heap[pre.root_library].url
  /\ pc \in {"UnblockClassFinalization", "ReportError", "Checkpointed"} =>
       /\ start_reload.url = pre.heap[pre.root_library].url
       /\ start_reload.result = ScriptOf(pre.loading).error
  /\ pc = "Checkpointed" =>
       /\ phases = <<"GrabRootLibrary", "SwitchStackToUnoptimizedCode",
                     "Checkpoint", "BlockClassFinalization",
                     "library_tag_handler", "UnblockClassFinalization",
                     "ReportError">>
       /\ ctx.has_error <=> start_reload.result # ""

\* C36: class finalization is blocked exactly from the statement before the
\* call of the library tag handler to the statement after its return; the
\* stack has been switched to unoptimized code and the checkpoint has been
\* taken when the handler is called; the handler gets the URL of the root
\* library of before the reload; and whenever finalization is blocked it is
\* unblocked again, StartReload returning with finalization unblocked
\* whether the handler returned an error or not.
C36_FinalizationBlockedAroundLoader ==
  /\ []StartReloadStates
  /\ (defer_finalization_count > 0)
       ~> (pc = "Checkpointed" /\ defer_finalization_count = 0)

\* StartReload has returned after a handler that returned an error; it was
\* called with a frame whose function had optimized code only.
C36_Witness ==
  /\ pc = "Checkpointed"
  /\ defer_finalization_count = 0
  /\ ctx.has_error
  /\ start_reload.url = "app"
  /\ \E i \in DOMAIN stack :
       pre.heap[stack[i].function].code = Null

\* The pairs of a class loaded by the reload and the class it replaces.
ReplacedPairs ==
  {<<ctx.class_map[i].key, ctx.class_map[i].value>> :
     i \in Replacing(ctx.class_map)}

\* Commit is at or past its first loop and has not swept the heap yet.
InCommit ==
  pc \in {"CopyStaticFieldsAndPatchFieldsAndFunctions", "ReplaceClasses",
          "CopyLibraryBits", "UpdateLibrariesArray", "Become"}

\* C37 as stated: whenever Commit runs, the two classes of every replaced
\* pair are both enum classes or both no enum classes.
C37_AsStated ==
  InCommit =>
    \A pair \in ReplacedPairs :
      heap[pair[1]].is_enum_class = heap[pair[2]].is_enum_class

\* C38 as stated: whenever Commit runs, every old field that has the name
\* of a static field of the class that replaces its class is a static
\* field, so that CopyStaticFieldValues hands AddStaticFieldMapping static
\* fields only.
C38_AsStated ==
  InCommit =>
    \A pair \in ReplacedPairs :
      \A fields \in SameNamed(heap, pair[1], pair[2]) :
        heap[fields[1]].is_static /\ heap[fields[2]].is_static

\* C39 as stated: after RehashCanonicalTypeArguments the count in the last
\* slot of the table is the number of element slots that are not null,
\* also when equal elements were collapsed into one.
C39_AsStated ==
  pc = "Rehashed" =>
    LET new == canonical_type_arguments
        n == Capacity(new)
    IN new[n + 1] = Cardinality({j \in 1..n : new[j] # Null})

====
